---- MODULE Spec2Model ----
(***************************************************************************)
(* Impoundment lifecycle of the inspection portal.                         *)
(*                                                                         *)
(* Text is modelled as a sequence of one-character strings, so that the    *)
(* regular expressions, trims and number conversions of the source are     *)
(* computed character by character.                                       *)
(*                                                                         *)
(* A browser tab is one single-threaded client.  An async handler is a     *)
(* chain of steps: the click runs the synchronous prefix up to the first   *)
(* await, and every awaited store write or SMS request resolves in a step  *)
(* of its own, successfully or not.  The record store is shared by all     *)
(* tabs; a tab sees other tabs' writes only when its live subscription     *)
(* delivers the next snapshot.                                             *)
(*                                                                         *)
(* What the user has typed into a form or picked in a select is the input  *)
(* of the click that submits it; the handler works on the values its       *)
(* closure captured at the click.  A run ends at pc = "end": what it did   *)
(* is complete, its alert() (if any) is on screen and blocks the tab, and  *)
(* the Finish step (the alert is dismissed, the finally block has run)     *)
(* returns the tab to "idle".                                              *)
(***************************************************************************)
EXTENDS Integers, Sequences, FiniteSets

VARIABLES
    page,            \* tab -> the page the tab has open
    pc,              \* tab -> position of the tab's running handler ("idle" if none)
    outcome,         \* tab -> what the tab's running handler has done so far
    \* ---- ndachecklists/submissions/{id} (detail page) ----
    boxStatus,       \* stored impoundment/boxStatus ("" = field absent)
    releaseRecord,   \* stored releaseRecord: <<>> (absent) or <<form>>
    totalBoxes,      \* stored impoundment/totalBoxes (digit text)
    contactPhones,   \* stored meta/drugshopContactPhones (csv text)
    item,            \* tab -> cached snapshot of the record (useState item)
    showModal,       \* tab -> release modal open
    saveArg,         \* tab -> statusDraft as captured by the running saveBoxStatus
    relForm,         \* tab -> form as captured by the running handleReleaseSubmit
    \* ---- inspections/{id} and releases/{id} (bounded-drugs pages) ----
    boxesImpounded,  \* stored inspections/{id}/boxesImpounded (text or number)
    invStatus,       \* stored inspections/{id}/status
    releases,        \* entries pushed under releases/{id}: their boxesReleased
    rows,            \* tab -> the record's row in the cached list (useState rows)
    target,          \* tab -> row captured when the modal was opened (useState target)
    open,            \* tab -> release modal open
    relInput,        \* tab -> form as captured by the running handleSubmitRelease
    \* ---- ndachecklists/submissions and counters (inspection form) ----
    submissions,     \* records pushed under ndachecklists/submissions: their docNo numbers
    counters,        \* stored ndachecklists/counters: doc and serial (they move together)
    latePushes,      \* pushes whose timeout has fired and that are still under way
    formNo,          \* tab -> number behind formData.docNo / serialNumber (0 = none yet)
    mounting,        \* tab -> the mount effect's reserveNumbers is still under way
    formIn,          \* tab -> form as captured by the running handleSubmit
    \* ---- the same record on the inspections list page ----
    reminder100SentAt, \* stored impoundment/reminder100SentAt is set
    daysInStore,     \* whole days from impoundmentDate to now
    remindersSent,   \* reminder SMS the gateway has accepted for the record
    items,           \* tab -> the record as cached in the list (useState items)
    remindedIds,     \* tab -> the record's id is in remindedIds.current
    remindSms,       \* tab -> passes of the auto-remind effect awaiting sendSms
    remindUpdate,    \* tab -> passes of the auto-remind effect awaiting update
    remindFailed,    \* tab -> a sendSms or update of one of the tab's passes has failed
    \* ---- pagination of the inspections list (one session) ----
    dataset,         \* id -> meta/createdAt of the records under ndachecklists/submissions
    itemIds,         \* ids of the records in items, in the order of the list
    lastSeenOrderVal, \* lastSeenOrderVal.current
    reachedEnd,      \* reachedEnd.current
    loading,         \* the first snapshot has not arrived yet
    loadingMore,     \* a loadMore is under way
    moreEndAt,       \* the endAt bound of the query of the loadMore under way
    \* ---- POST /api/sms (one request at a time) ----
    request,         \* the request being handled: credential configured, body
    routePc,         \* position of POST: "idle", "json", "fetch", "respond", "done"
    sent,            \* payloads POST has handed to fetch for the provider
    upstream,        \* status of the provider's answer (0 = none yet)
    response,        \* what POST has returned (status 0 = nothing yet)
    \* ---- phone normalisation applied to a text ----
    phoneIn,         \* the text given
    phoneApplied,    \* which function is being applied to it ("none" = none yet)
    phoneOut,        \* the results of applying it once, twice, ...
    \* ---- AuthGate around the protected pages ----
    gate,            \* useState state: loading, user, allowed, error
    requireAnyRole,  \* the requireAnyRole prop ({} = not given)
    roleDoc,         \* stored roles/{uid} of the user
    authUser,        \* the auth state: "unknown" until it resolves, "none", "user"
    authChecks,      \* onAuthStateChanged callbacks that are at an await
    authEvents,      \* auth state changes delivered so far
    gateMounted      \* the gate is on the screen

vars == <<page, pc, outcome, boxStatus, releaseRecord, totalBoxes, contactPhones,
          item, showModal, saveArg, relForm,
          boxesImpounded, invStatus, releases, rows, target, open, relInput,
          submissions, counters, latePushes, formNo, mounting, formIn,
          reminder100SentAt, daysInStore, remindersSent, items, remindedIds,
          remindSms, remindUpdate, remindFailed,
          dataset, itemIds, lastSeenOrderVal, reachedEnd, loading, loadingMore, moreEndAt,
          request, routePc, sent, upstream, response,
          phoneIn, phoneApplied, phoneOut,
          gate, requireAnyRole, roleDoc, authUser, authChecks, authEvents, gateMounted>>

listStore == <<reminder100SentAt, daysInStore, remindersSent>>
listLocal == <<items, remindedIds, remindSms, remindUpdate, remindFailed>>

\* what the handlers of the detail, bounded-drugs and form pages never touch
pagerVars == <<dataset, itemIds, lastSeenOrderVal, reachedEnd, loading, loadingMore, moreEndAt>>

\* what the reminder steps of the list page never touch, besides the pages
routeVars == <<request, routePc, sent, upstream, response>>

phoneVars == <<phoneIn, phoneApplied, phoneOut>>

\* what no page touches: the state of the server's route, the phone texts
gateVars == <<gate, requireAnyRole, roleDoc, authUser, authChecks, authEvents, gateMounted>>

serverParts == <<routeVars, phoneVars, gateVars>>

nonListParts == <<pagerVars, serverParts>>

otherParts == <<listStore, listLocal, nonListParts>>

formStore == <<submissions, counters, latePushes>>
formLocal == <<formNo, mounting, formIn>>

boundedStore == <<boxesImpounded, invStatus, releases>>
boundedLocal == <<rows, target, open, relInput>>

detailStore == <<boxStatus, releaseRecord, totalBoxes, contactPhones>>
detailLocal == <<item, showModal, saveArg, relForm>>

Tabs == {"tab1", "tab2"}

(***************************************************************************)
(* Bounds                                                                  *)
(***************************************************************************)
\* boxes impounded when the record is created
MaxBoxes == 2
\* release entries under releases/{id} after which no further release is started
MaxReleases == 2
\* inspections submitted (pushes started) after which no further one is started
MaxSubmissions == 2
\* reminder SMS (sent or under way) after which no further reminder pass starts one
MaxReminders == 2
\* page size of the list queries (24 in the source, scaled down)
PAGE_SIZE == 2
\* records under ndachecklists/submissions
MaxRecords == 3
\* distinct instants a createdAt can hold
MaxMs == 2

\* auth state changes during one visit
MaxAuthEvents == 3

(***************************************************************************)
(* Text helpers                                                            *)
(***************************************************************************)
DigitSeq == <<"0", "1", "2", "3", "4", "5", "6", "7", "8", "9">>
Digits == {DigitSeq[i] : i \in 1..10}
DigitVal(c) == (CHOOSE i \in 1..10 : DigitSeq[i] = c) - 1
IsSpace(c) == c = " "

\* s.replace(/\s+/g, '')
StripWs(s) == SelectSeq(s, LAMBDA c : ~IsSpace(c))

\* s.replace(/[^\d]/g, '')
OnlyDigits(s) == SelectSeq(s, LAMBDA c : c \in Digits)

RECURSIVE TrimLeft(_)
TrimLeft(s) == IF s # <<>> /\ IsSpace(Head(s)) THEN TrimLeft(Tail(s)) ELSE s

RECURSIVE TrimRight(_)
TrimRight(s) ==
    IF s # <<>> /\ IsSpace(s[Len(s)]) THEN TrimRight(SubSeq(s, 1, Len(s) - 1)) ELSE s

\* s.trim()
Trim(s) == TrimRight(TrimLeft(s))

\* /^\d+$/.test(s)
AllDigits(s) == s # <<>> /\ \A i \in 1..Len(s) : s[i] \in Digits

RECURSIVE DigitsValue(_)
DigitsValue(s) ==
    IF s = <<>> THEN 0 ELSE 10 * DigitsValue(SubSeq(s, 1, Len(s) - 1)) + DigitVal(s[Len(s)])

\* String(n) for n >= 0
RECURSIVE String(_)
String(n) ==
    IF n < 10 THEN <<DigitSeq[n + 1]>> ELSE String(n \div 10) \o <<DigitSeq[(n % 10) + 1]>>

(***************************************************************************)
(* Phone normalisation and recipient lists                                 *)
(***************************************************************************)
StartsWith(s, pre) == Len(s) >= Len(pre) /\ SubSeq(s, 1, Len(pre)) = pre

\* /^<pre>\d{8}$/.test(s)
PrefixThen8Digits(s, pre) ==
    /\ Len(s) = Len(pre) + 8
    /\ StartsWith(s, pre)
    /\ \A i \in (Len(pre) + 1)..Len(s) : s[i] \in Digits

\* /^\+2567\d{8}$/
ugReCanonical(s) == PrefixThen8Digits(s, <<"+", "2", "5", "6", "7">>)

\* normalizeUgPhone as it would be if the 07 form were rewritten without the "+"
normalizeUgPhone_noPlus(p) ==
    LET s == StripWs(p) IN
    IF ugReCanonical(s) THEN s
    ELSE IF PrefixThen8Digits(s, <<"2", "5", "6", "7">>) THEN <<"+">> \o s
    ELSE IF PrefixThen8Digits(s, <<"0", "7">>) THEN <<"2", "5", "6">> \o Tail(s)
    ELSE s

normalizeUgPhone(p) ==
    LET s == StripWs(p) IN
    IF ugReCanonical(s) THEN s
    ELSE IF PrefixThen8Digits(s, <<"2", "5", "6", "7">>) THEN <<"+">> \o s
    ELSE IF PrefixThen8Digits(s, <<"0", "7">>) THEN <<"+", "2", "5", "6">> \o Tail(s)
    ELSE s

\* s.split(',')
RECURSIVE Split(_, _)
Split(s, cur) ==
    IF s = <<>> THEN <<cur>>
    ELSE IF Head(s) = "," THEN <<cur>> \o Split(Tail(s), <<>>)
    ELSE Split(Tail(s), Append(cur, Head(s)))

\* (s || '').split(',').map(trim).filter(Boolean)
splitCsv(s) ==
    LET parts == Split(s, <<>>)
        trimmed == [i \in 1..Len(parts) |-> Trim(parts[i])]
    IN SelectSeq(trimmed, LAMBDA x : x # <<>>)

\* Array.from(new Set(arr)): first occurrences, in order
RECURSIVE Dedupe(_, _)
Dedupe(arr, seen) ==
    IF arr = <<>> THEN <<>>
    ELSE IF Head(arr) \in seen THEN Dedupe(Tail(arr), seen)
    ELSE <<Head(arr)>> \o Dedupe(Tail(arr), seen \cup {Head(arr)})

\* arr.join(',')
RECURSIVE Join(_)
Join(arr) ==
    IF arr = <<>> THEN <<>>
    ELSE IF Len(arr) = 1 THEN arr[1]
    ELSE arr[1] \o <<",">> \o Join(Tail(arr))

\* uniqueCsv as it would be without the Set
uniqueCsv_noSet(arr) == Join(arr)

uniqueCsv(arr) == Join(Dedupe(arr, {}))

\* uniqueCsv(splitCsv(toPhonesCsv).map(normalizeUgPhone)): the recipients of sendSms
recipients(csv) ==
    LET tokens == splitCsv(csv) IN
    uniqueCsv([i \in 1..Len(tokens) |-> normalizeUgPhone(tokens[i])])

\* collectOwnerPhones(item, extra): stored phones plus the optional extra one
collectOwnerPhones(phones, extra) ==
    LET base == splitCsv(phones)
        plus == IF extra # <<>> THEN <<extra>> ELSE <<>>
        all == base \o plus
        normalized == [i \in 1..Len(all) |-> normalizeUgPhone(all[i])]
    IN uniqueCsv(SelectSeq(normalized, LAMBDA x : x # <<>>))

(***************************************************************************)
(* Handler runs                                                            *)
(***************************************************************************)
\* What one run of a handler did, as the user and the network saw it.
\*   write:  "none" | "ok" | "fail"   the run's update of the record
\*   sms:    "none" | "ok" | "fail"   the run's SMS request
\*   alert:  the text shown by alert() / the error banner ("" if none)
\*   reason: the underlying error message included in that text ("" if none)
\*   push:   "none" | "ok" | "fail"   the run's push of a new entry
NoOutcome == [op |-> "none", push |-> "none", write |-> "none", sms |-> "none",
              alert |-> "", reason |-> ""]
Started(op) == [NoOutcome EXCEPT !.op = op]

\* Messages of the errors the store client and the SMS helper throw.
StoreError == "PERMISSION_DENIED"
SmsError == "SMS failed"

(***************************************************************************)
(* Detail page: inspections/[id]                                           *)
(***************************************************************************)
NotYetInStore == "Not yet in store"
InStore == "In Store"
Released == "Released"
BOX_STATUS_OPTIONS == <<NotYetInStore, InStore, Released>>
BoxStatusSet == {BOX_STATUS_OPTIONS[i] : i \in 1..Len(BOX_STATUS_OPTIONS)}

\* (x as BoxStatus) || 'Not yet in store'
OrNotYet(x) == IF x = "" THEN NotYetInStore ELSE x

NoItem == [loaded |-> FALSE, boxStatus |-> "", phones |-> <<>>]
\* snap.val() of ndachecklists/submissions/{id}, as far as the handlers read it
StoredItem == [loaded |-> TRUE, boxStatus |-> boxStatus, phones |-> contactPhones]

currentStatus(t) == OrNotYet(item[t].boxStatus)

EmptyForm == [releaseDate |-> <<>>, clientName |-> <<>>, telephone |-> <<>>,
              releasedBy |-> <<>>, comment |-> <<>>, boxesReleased |-> <<>>]
NoReleaseInput == [form |-> EmptyForm, consent |-> FALSE]

\* onValue callback: setItem(v); it runs when the tab is not blocked by an alert
Snapshot(t) ==
    /\ page[t] = "detail" /\ pc[t] # "end"
    /\ item[t] # StoredItem
    /\ item' = [item EXCEPT ![t] = StoredItem]
    /\ UNCHANGED <<formStore, formLocal, boundedStore, boundedLocal, page, otherParts, pc, outcome, detailStore, showModal, saveArg, relForm>>

\* saveBoxStatus with statusDraft = draft, up to its first await
saveBoxStatus(t, draft) ==
    /\ page[t] = "detail" /\ pc[t] = "idle"
    /\ item[t].loaded
    /\ saveArg' = [saveArg EXCEPT ![t] = draft]
    /\ IF currentStatus(t) = Released
       THEN /\ outcome' = [outcome EXCEPT ![t] = [Started("saveBoxStatus") EXCEPT
                               !.alert = "Status is Released and cannot be changed."]]
            /\ pc' = [pc EXCEPT ![t] = "end"]
       ELSE IF draft = Released
       THEN /\ outcome' = [outcome EXCEPT ![t] = [Started("saveBoxStatus") EXCEPT
                               !.alert = "Use the Release button"]]
            /\ pc' = [pc EXCEPT ![t] = "end"]
       ELSE /\ outcome' = [outcome EXCEPT ![t] = Started("saveBoxStatus")]
            /\ pc' = [pc EXCEPT ![t] = "save_update"]
    /\ UNCHANGED <<formStore, formLocal, boundedStore, boundedLocal, page, otherParts, detailStore, item, showModal, relForm>>

\* saveBoxStatus's update step as it would be if the notification did not
\* wait for the patch to succeed
saveBoxStatus_update_notifyAnyway(t, ok) ==
    /\ pc[t] = "save_update"
    /\ IF ok
       THEN /\ boxStatus' = saveArg[t]
            /\ item' = [item EXCEPT ![t].boxStatus = saveArg[t]]
            /\ outcome' = [outcome EXCEPT ![t].write = "ok"]
       ELSE /\ outcome' = [outcome EXCEPT ![t].write = "fail"]
            /\ UNCHANGED <<boxStatus, item>>
    /\ IF saveArg[t] = InStore /\ collectOwnerPhones(item[t].phones, <<>>) # <<>>
       THEN pc' = [pc EXCEPT ![t] = "save_sms"]
       ELSE pc' = [pc EXCEPT ![t] = "end"]
    /\ UNCHANGED <<formStore, formLocal, boundedStore, boundedLocal, page, otherParts, releaseRecord, totalBoxes, contactPhones, showModal, saveArg, relForm>>

\* await update(.../impoundment, { boxStatus: statusDraft }) resolves
saveBoxStatus_update(t, ok) ==
    /\ pc[t] = "save_update"
    /\ IF ok
       THEN /\ boxStatus' = saveArg[t]
            /\ item' = [item EXCEPT ![t].boxStatus = saveArg[t]]
            /\ outcome' = [outcome EXCEPT ![t].write = "ok"]
            /\ IF saveArg[t] = InStore /\ collectOwnerPhones(item[t].phones, <<>>) # <<>>
               THEN pc' = [pc EXCEPT ![t] = "save_sms"]
               ELSE pc' = [pc EXCEPT ![t] = "end"]
       ELSE \* no catch: the rejection leaves through finally, nothing is shown
            /\ pc' = [pc EXCEPT ![t] = "end"]
            /\ outcome' = [outcome EXCEPT ![t].write = "fail"]
            /\ UNCHANGED <<boxStatus, item>>
    /\ UNCHANGED <<formStore, formLocal, boundedStore, boundedLocal, page, otherParts, releaseRecord, totalBoxes, contactPhones, showModal, saveArg, relForm>>

\* await sendSms(toCsv, buildInStoreMessage(...)) resolves
saveBoxStatus_sms(t, ok) ==
    /\ pc[t] = "save_sms"
    /\ pc' = [pc EXCEPT ![t] = "end"]
    /\ outcome' = [outcome EXCEPT ![t] =
           IF ok THEN [@ EXCEPT !.sms = "ok", !.alert = "Status saved. Owner notified (In Store)."]
                 ELSE [@ EXCEPT !.sms = "fail", !.alert = "Status saved, but SMS failed",
                                !.reason = SmsError]]
    /\ UNCHANGED <<formStore, formLocal, boundedStore, boundedLocal, page, otherParts, detailStore, detailLocal>>

\* Release button, rendered when imp.boxStatus === 'In Store'
OpenReleaseModal(t) ==
    /\ page[t] = "detail" /\ pc[t] # "end"
    /\ item[t].loaded
    /\ item[t].boxStatus = InStore
    /\ ~showModal[t]
    /\ showModal' = [showModal EXCEPT ![t] = TRUE]
    /\ UNCHANGED <<formStore, formLocal, boundedStore, boundedLocal, page, otherParts, pc, outcome, detailStore, item, saveArg, relForm>>

\* Cancel button of the modal, disabled while releasing
CloseReleaseModal(t) ==
    /\ page[t] = "detail" /\ showModal[t]
    /\ pc[t] \notin {"release_sms", "release_update", "end"}
    /\ showModal' = [showModal EXCEPT ![t] = FALSE]
    /\ UNCHANGED <<formStore, formLocal, boundedStore, boundedLocal, page, otherParts, pc, outcome, detailStore, item, saveArg, relForm>>

\* validateRelease() as it would be without its client-name check
validateRelease_noClientName(f, c) ==
    (IF f.releaseDate = <<>> THEN <<"Release Date is required">> ELSE <<>>)
    \o (IF Trim(f.telephone) = <<>> THEN <<"Telephone is required">> ELSE <<>>)
    \o (IF Trim(f.releasedBy) = <<>> THEN <<"Released By is required">> ELSE <<>>)
    \o (IF Trim(f.boxesReleased) = <<>> \/ ~AllDigits(f.boxesReleased)
        THEN <<"Boxes Released must be a number">> ELSE <<>>)
    \o (IF ~c THEN <<"Consent is required">> ELSE <<>>)

\* validateRelease(): the list of error messages
validateRelease(f, c) ==
    (IF f.releaseDate = <<>> THEN <<"Release Date is required">> ELSE <<>>)
    \o (IF Trim(f.clientName) = <<>> THEN <<"Client Name is required">> ELSE <<>>)
    \o (IF Trim(f.telephone) = <<>> THEN <<"Telephone is required">> ELSE <<>>)
    \o (IF Trim(f.releasedBy) = <<>> THEN <<"Released By is required">> ELSE <<>>)
    \o (IF Trim(f.boxesReleased) = <<>> \/ ~AllDigits(f.boxesReleased)
        THEN <<"Boxes Released must be a number">> ELSE <<>>)
    \o (IF ~c THEN <<"Consent is required">> ELSE <<>>)

\* The modal's boxesReleased input: onChange keeps e.target.value.replace(/[^\d]/g, '')
TypedReleaseForm(raw) == [raw EXCEPT !.boxesReleased = OnlyDigits(raw.boxesReleased)]

\* handleReleaseSubmit on the form typed as raw with the consent box at c,
\* up to its first await
handleReleaseSubmit(t, raw, c) ==
    LET f == TypedReleaseForm(raw) IN
    /\ page[t] = "detail" /\ pc[t] = "idle"
    /\ showModal[t]
    /\ relForm' = [relForm EXCEPT ![t] = [form |-> f, consent |-> c]]
    /\ IF validateRelease(f, c) # <<>>
       THEN /\ outcome' = [outcome EXCEPT ![t] = [Started("handleReleaseSubmit") EXCEPT
                               !.alert = "Fix the following"]]
            /\ pc' = [pc EXCEPT ![t] = "end"]
       ELSE IF ~item[t].loaded
       THEN /\ outcome' = [outcome EXCEPT ![t] = Started("handleReleaseSubmit")]
            /\ pc' = [pc EXCEPT ![t] = "end"]
       ELSE IF collectOwnerPhones(item[t].phones, f.telephone) = <<>>
       THEN /\ outcome' = [outcome EXCEPT ![t] = [Started("handleReleaseSubmit") EXCEPT
                               !.alert = "Release failed",
                               !.reason = "No facility contact phone available."]]
            /\ pc' = [pc EXCEPT ![t] = "end"]
       ELSE /\ outcome' = [outcome EXCEPT ![t] = Started("handleReleaseSubmit")]
            /\ pc' = [pc EXCEPT ![t] = "release_sms"]
    /\ UNCHANGED <<formStore, formLocal, boundedStore, boundedLocal, page, otherParts, detailStore, item, showModal, saveArg>>

\* handleReleaseSubmit's SMS step as it would be if a failed send did not stop
\* the run
handleReleaseSubmit_sms_ignoreFailure(t, ok) ==
    /\ pc[t] = "release_sms"
    /\ pc' = [pc EXCEPT ![t] = "release_update"]
    /\ outcome' = [outcome EXCEPT ![t].sms = IF ok THEN "ok" ELSE "fail"]
    /\ UNCHANGED <<formStore, formLocal, boundedStore, boundedLocal, page, otherParts, detailStore, detailLocal>>

\* 1) await sendSms(toCsv, msg) resolves
handleReleaseSubmit_sms(t, ok) ==
    /\ pc[t] = "release_sms"
    /\ IF ok
       THEN /\ pc' = [pc EXCEPT ![t] = "release_update"]
            /\ outcome' = [outcome EXCEPT ![t].sms = "ok"]
       ELSE /\ pc' = [pc EXCEPT ![t] = "end"]
            /\ outcome' = [outcome EXCEPT ![t] =
                   [@ EXCEPT !.sms = "fail", !.alert = "Release failed", !.reason = SmsError]]
    /\ UNCHANGED <<formStore, formLocal, boundedStore, boundedLocal, page, otherParts, detailStore, detailLocal>>

\* 2) await update(.../{id}, {'impoundment/boxStatus': 'Released', releaseRecord: form}) resolves
handleReleaseSubmit_update(t, ok) ==
    /\ pc[t] = "release_update"
    /\ pc' = [pc EXCEPT ![t] = "end"]
    /\ IF ok
       THEN /\ boxStatus' = Released
            /\ releaseRecord' = <<relForm[t].form>>
            /\ item' = [item EXCEPT ![t].boxStatus = Released]
            /\ outcome' = [outcome EXCEPT ![t] =
                   [@ EXCEPT !.write = "ok", !.alert = "Released and SMS sent."]]
            /\ showModal' = [showModal EXCEPT ![t] = FALSE]
       ELSE /\ outcome' = [outcome EXCEPT ![t] =
                   [@ EXCEPT !.write = "fail", !.alert = "Release failed", !.reason = StoreError]]
            /\ UNCHANGED <<boxStatus, releaseRecord, item, showModal>>
    /\ UNCHANGED <<formStore, formLocal, boundedStore, boundedLocal, page, otherParts, totalBoxes, contactPhones, saveArg, relForm>>

\* The run is over: its alert is dismissed, finally { setSavingStatus(false) /
\* setReleasing(false) } has run, the closure is gone.
FinishDetail(t) ==
    /\ page[t] = "detail" /\ pc[t] = "end"
    /\ pc' = [pc EXCEPT ![t] = "idle"]
    /\ outcome' = [outcome EXCEPT ![t] = NoOutcome]
    /\ saveArg' = [saveArg EXCEPT ![t] = NotYetInStore]
    /\ relForm' = [relForm EXCEPT ![t] = NoReleaseInput]
    /\ UNCHANGED <<formStore, formLocal, boundedStore, boundedLocal, page, otherParts, detailStore, item, showModal>>

(***************************************************************************)
(* Bounded-drugs pages                                                     *)
(*   page "bounded":        app/(protected)/bounded-drugs/page.tsx         *)
(*   page "bounded_legacy": app/bounded-drugs/page.tsx                     *)
(***************************************************************************)
BoundedPages == {"bounded", "bounded_legacy"}

\* A stored boxesImpounded is a string or a number (string | number).
StrVal(text) == [isStr |-> TRUE, text |-> text, n |-> 0]
NumVal(n) == [isStr |-> FALSE, text |-> <<>>, n |-> n]

\* num(v) / parseNumber(v): Number(v) of a string, 0 when that is NaN.  The
\* strings stored here are digit texts, so signs, fractions and exponents
\* are not covered.
num(v) ==
    IF ~v.isStr THEN v.n
    ELSE LET s == Trim(v.text) IN
         IF s = <<>> THEN 0 ELSE IF AllDigits(s) THEN DigitsValue(s) ELSE 0

\* parseInt(s, 10) of a text without sign: leading blanks skipped, the
\* longest digit prefix converted, NaN when there is none
RECURSIVE DigitPrefix(_)
DigitPrefix(s) ==
    IF s # <<>> /\ Head(s) \in Digits THEN <<Head(s)>> \o DigitPrefix(Tail(s)) ELSE <<>>

parseInt(s) ==
    LET d == DigitPrefix(TrimLeft(s)) IN
    IF d = <<>> THEN [nan |-> TRUE, n |-> 0] ELSE [nan |-> FALSE, n |-> DigitsValue(d)]

\* /^(\+?\d{7,15})$/.test((t || '').replace(/\s+/g, ''))
telOk(t) ==
    LET s == StripWs(t)
        d == IF s # <<>> /\ Head(s) = "+" THEN Tail(s) ELSE s
    IN Len(d) >= 7 /\ Len(d) <= 15 /\ AllDigits(d)

LowerSeq == <<"a", "b", "c", "d", "e", "f", "g", "h", "i", "j", "k", "l", "m",
              "n", "o", "p", "q", "r", "s", "t", "u", "v", "w", "x", "y", "z">>
UpperSeq == <<"A", "B", "C", "D", "E", "F", "G", "H", "I", "J", "K", "L", "M",
              "N", "O", "P", "Q", "R", "S", "T", "U", "V", "W", "X", "Y", "Z">>
UpperChar(c) ==
    IF \E i \in 1..26 : LowerSeq[i] = c
    THEN UpperSeq[CHOOSE i \in 1..26 : LowerSeq[i] = c] ELSE c
LowerChar(c) ==
    IF \E i \in 1..26 : UpperSeq[i] = c
    THEN LowerSeq[CHOOSE i \in 1..26 : UpperSeq[i] = c] ELSE c
toUpperCase(s) == [i \in 1..Len(s) |-> UpperChar(s[i])]
toLowerCase(s) == [i \in 1..Len(s) |-> LowerChar(s[i])]

RELEASE == <<"R", "E", "L", "E", "A", "S", "E">>
\* serialNumber of the record (formatSerial: SN + six digits)
SerialNumber == <<"S", "N", "0", "0", "0", "0", "0", "1">>

\* canConfirm: both acknowledgements and the typed confirmation
canConfirm(in) ==
    LET typed == Trim(in.confirmText)
        serial == Trim(SerialNumber)
        okTyped == \/ toUpperCase(typed) = RELEASE
                   \/ (serial # <<>> /\ toLowerCase(typed) = toLowerCase(serial))
    IN in.ack1 /\ in.ack2 /\ okTyped

NoRow == [present |-> FALSE, boxesImpounded |-> NumVal(0), status |-> ""]
\* The record's row in a snapshot of the subscription: rows with
\* num(boxesImpounded) > 0 only.
StoredRow ==
    IF num(boxesImpounded) > 0
    THEN [present |-> TRUE, boxesImpounded |-> boxesImpounded, status |-> invStatus]
    ELSE NoRow

\* (r.status || '').toLowerCase().includes('complete') || boxes === 0
isCompleted(r) == r.status = "Completed" \/ num(r.boxesImpounded) = 0

NoBoundedInput ==
    [relDate |-> <<>>, clientName |-> <<>>, telephone |-> <<>>, releasedBy |-> <<>>,
     comment |-> <<>>, boxesReleased |-> <<>>, ack1 |-> FALSE, ack2 |-> FALSE,
     confirmText |-> <<>>]

\* onValue callback: setRows(list)
SnapshotRows(t) ==
    /\ page[t] \in BoundedPages /\ pc[t] # "end"
    /\ rows[t] # StoredRow
    /\ rows' = [rows EXCEPT ![t] = StoredRow]
    /\ UNCHANGED <<formStore, formLocal, detailStore, detailLocal, page, otherParts, pc, outcome, boundedStore, target, open, relInput>>

\* openModal(row) / openReleaseModal(row)
openModal(t) ==
    /\ page[t] \in BoundedPages /\ pc[t] = "idle"
    /\ rows[t].present /\ ~isCompleted(rows[t])
    /\ ~open[t]
    /\ target' = [target EXCEPT ![t] = rows[t]]
    /\ open' = [open EXCEPT ![t] = TRUE]
    /\ UNCHANGED <<formStore, formLocal, detailStore, detailLocal, page, otherParts, pc, outcome, boundedStore, rows, relInput>>

\* Cancel, Escape or a click on the backdrop
closeModal(t) ==
    /\ page[t] \in BoundedPages /\ pc[t] # "end"
    /\ open[t]
    /\ open' = [open EXCEPT ![t] = FALSE]
    /\ UNCHANGED <<formStore, formLocal, detailStore, detailLocal, page, otherParts, pc, outcome, boundedStore, rows, target, relInput>>

\* The modal's boxesReleased input: onChange keeps e.target.value.replace(/[^\d]/g, '')
TypedBoundedInput(raw) == [raw EXCEPT !.boxesReleased = OnlyDigits(raw.boxesReleased)]

\* count as handleSubmitRelease computes it: parseInt(boxesReleased, 10), and
\* on the legacy page intendedCount (0 for NaN)
releaseCount(pg, in) ==
    LET c == parseInt(in.boxesReleased) IN
    IF pg = "bounded_legacy" /\ c.nan THEN [nan |-> FALSE, n |-> 0] ELSE c

\* The guards of handleSubmitRelease: the error it sets, "" when it passes
releaseGuards(pg, in, available) ==
    LET count == releaseCount(pg, in) IN
    IF in.relDate = <<>> THEN "Release date is required."
    ELSE IF Trim(in.clientName) = <<>> THEN "Client name is required."
    ELSE IF Trim(in.telephone) = <<>> THEN "Telephone number is required."
    ELSE IF ~telOk(in.telephone) THEN "Enter a valid phone number (e.g. +2567XXXXXXX)."
    ELSE IF Trim(in.releasedBy) = <<>> THEN "Released by is required."
    ELSE IF count.nan \/ count.n <= 0 THEN "Enter a valid number of boxes to release."
    ELSE IF count.n > available THEN "You are releasing more than are impounded."
    ELSE IF pg = "bounded" /\ ~canConfirm(in)
         THEN "Complete acknowledgements and type RELEASE or the Serial."
    ELSE ""

\* handleSubmitRelease on the form typed as raw, up to its first await
handleSubmitRelease(t, raw) ==
    LET in == TypedBoundedInput(raw)
        err == releaseGuards(page[t], in, num(target[t].boxesImpounded))
    IN
    /\ page[t] \in BoundedPages /\ pc[t] = "idle"
    /\ open[t] /\ target[t].present
    /\ Len(releases) < MaxReleases
    /\ relInput' = [relInput EXCEPT ![t] = in]
    /\ IF err # ""
       THEN /\ outcome' = [outcome EXCEPT ![t] =
                   [Started("handleSubmitRelease") EXCEPT !.alert = err]]
            /\ pc' = [pc EXCEPT ![t] = "end"]
       ELSE /\ outcome' = [outcome EXCEPT ![t] = Started("handleSubmitRelease")]
            /\ pc' = [pc EXCEPT ![t] = "submit_push"]
    /\ UNCHANGED <<formStore, formLocal, detailStore, detailLocal, page, otherParts, boundedStore, rows, target, open>>

\* 1) await push(ref(db, `releases/${target.id}`), {..., boxesReleased: count}) resolves
handleSubmitRelease_push(t, ok) ==
    /\ pc[t] = "submit_push"
    /\ IF ok
       THEN /\ releases' = Append(releases, releaseCount(page[t], relInput[t]).n)
            /\ outcome' = [outcome EXCEPT ![t].push = "ok"]
            /\ pc' = [pc EXCEPT ![t] = "submit_update"]
       ELSE /\ outcome' = [outcome EXCEPT ![t] =
                   [@ EXCEPT !.push = "fail", !.alert = StoreError, !.reason = StoreError]]
            /\ pc' = [pc EXCEPT ![t] = "end"]
            /\ UNCHANGED releases
    /\ UNCHANGED <<formStore, formLocal, detailStore, detailLocal, page, otherParts, boxesImpounded, invStatus, boundedLocal>>

\* remaining = Math.max(0, available - count)
remaining(available, count) == IF available - count > 0 THEN available - count ELSE 0

\* 2) await update(ref(db, `inspections/${target.id}`), {boxesImpounded, status, ...}) resolves
handleSubmitRelease_update(t, ok) ==
    LET rem == remaining(num(target[t].boxesImpounded), releaseCount(page[t], relInput[t]).n)
        nextStatus == IF rem = 0 THEN "Completed" ELSE "Pending Review"
        nextBoxes == IF target[t].boxesImpounded.isStr THEN StrVal(String(rem)) ELSE NumVal(rem)
    IN
    /\ pc[t] = "submit_update"
    /\ IF ok
       THEN /\ boxesImpounded' = nextBoxes
            /\ invStatus' = nextStatus
            /\ rows' = [rows EXCEPT ![t] =
                   IF num(nextBoxes) > 0
                   THEN [present |-> TRUE, boxesImpounded |-> nextBoxes, status |-> nextStatus]
                   ELSE NoRow]
            /\ outcome' = [outcome EXCEPT ![t].write = "ok"]
            /\ pc' = [pc EXCEPT ![t] = "submit_sms"]
       ELSE /\ outcome' = [outcome EXCEPT ![t] =
                   [@ EXCEPT !.write = "fail", !.alert = StoreError, !.reason = StoreError]]
            /\ pc' = [pc EXCEPT ![t] = "end"]
            /\ UNCHANGED <<boxesImpounded, invStatus, rows>>
    /\ UNCHANGED <<formStore, formLocal, detailStore, detailLocal, page, otherParts, releases, target, open, relInput>>

\* 3) await sendSmsViaApi(...) / sendSms(...) resolves; setOpen(false); alert(...)
handleSubmitRelease_sms(t, ok) ==
    /\ pc[t] = "submit_sms"
    /\ outcome' = [outcome EXCEPT ![t] =
           [@ EXCEPT !.sms = IF ok THEN "ok" ELSE "fail",
                     !.alert = IF page[t] = "bounded" THEN "Release recorded."
                               ELSE IF ok THEN "Release recorded and SMS sent."
                               ELSE "Release recorded (SMS failed)."]]
    /\ open' = [open EXCEPT ![t] = FALSE]
    /\ pc' = [pc EXCEPT ![t] = "end"]
    /\ UNCHANGED <<formStore, formLocal, detailStore, detailLocal, page, otherParts, boundedStore, rows, target, relInput>>

\* The run is over: its alert is dismissed, finally { setSavingId(null) } has run
FinishBounded(t) ==
    /\ page[t] \in BoundedPages /\ pc[t] = "end"
    /\ pc' = [pc EXCEPT ![t] = "idle"]
    /\ outcome' = [outcome EXCEPT ![t] = NoOutcome]
    /\ relInput' = [relInput EXCEPT ![t] = NoBoundedInput]
    /\ UNCHANGED <<formStore, formLocal, detailStore, detailLocal, page, otherParts, boundedStore, rows, target, open>>

(***************************************************************************)
(* Inspection form: app/(protected)/inspections/new/page.tsx               *)
(***************************************************************************)
OfflineError == "Offline"
TimeoutError == "Timeout: push took too long"

\* friendlyError(err), on the messages above; online is navigator.onLine
friendlyError(msg, online) ==
    IF msg = StoreError THEN "Permission denied. Your account may not be allowed to write to this path."
    ELSE IF ~online THEN "You are offline. Please reconnect and try again."
    ELSE IF msg = TimeoutError THEN "Timed out. Connection might be slow - please retry."
    ELSE IF msg = "" THEN "Unknown error occurred."
    ELSE msg

\* validatePhones(raw): the error, "" for null
RECURSIVE FirstInvalidPhone(_)
FirstInvalidPhone(tokens) ==
    IF tokens = <<>> THEN ""
    ELSE LET norm == normalizeUgPhone(Head(tokens)) IN
         IF \/ PrefixThen8Digits(norm, <<"+", "2", "5", "6", "7">>)
            \/ PrefixThen8Digits(norm, <<"2", "5", "6", "7">>)
            \/ PrefixThen8Digits(norm, <<"0", "7">>)
         THEN FirstInvalidPhone(Tail(tokens))
         ELSE "Invalid phone"

validatePhones(raw) ==
    LET tokens == splitCsv(raw) IN
    IF tokens = <<>> THEN "Enter at least one phone number" ELSE FirstInvalidPhone(tokens)

\* boxesNum: formData.boxesImpounded ? parseInt(formData.boxesImpounded, 10) || 0 : 0
boxesNum(in) ==
    IF in.boxesImpounded = <<>> THEN 0
    ELSE LET c == parseInt(in.boxesImpounded) IN IF c.nan THEN 0 ELSE c.n

\* validateForm(): the summary of errors
validateForm(in) ==
    (IF Trim(in.drugshopName) = <<>> THEN <<"facilityName: required">> ELSE <<>>)
    \o (IF in.boxesImpounded # <<>> /\ ~AllDigits(Trim(in.boxesImpounded))
        THEN <<"boxesImpounded: must be a number">> ELSE <<>>)
    \o (IF in.sendSms /\ boxesNum(in) > 0 /\ validatePhones(in.drugshopContactPhones) # ""
        THEN <<"Phones">> ELSE <<>>)

\* The form's boxesImpounded input: onChange keeps e.target.value.replace(/[^\d]/g, '')
TypedInspection(raw) == [raw EXCEPT !.boxesImpounded = OnlyDigits(raw.boxesImpounded)]

NoInspection == [drugshopName |-> <<>>, drugshopContactPhones |-> <<>>,
                 boxesImpounded |-> <<>>, sendSms |-> TRUE]

\* reserveNumbers(db): runTransaction on ndachecklists/counters, both counters + 1
reserveNumbers(curr) == curr + 1

\* The mount effect: reserve numbers when the form has none
reserveOnMount(t, ok) ==
    /\ page[t] = "form" /\ mounting[t]
    /\ mounting' = [mounting EXCEPT ![t] = FALSE]
    /\ IF ok
       THEN /\ counters' = reserveNumbers(counters)
            /\ formNo' = [formNo EXCEPT ![t] = reserveNumbers(counters)]
       ELSE UNCHANGED <<counters, formNo>>
    /\ UNCHANGED <<detailStore, detailLocal, boundedStore, boundedLocal, page, otherParts, pc, outcome,
                   submissions, latePushes, formIn>>

\* Does handleSubmit send the impound SMS?
wantsSms(in) == in.sendSms /\ boxesNum(in) > 0 /\ Trim(in.drugshopContactPhones) # <<>>

\* handleSubmit on the form typed as raw, up to its first await; online is
\* navigator.onLine as pushWithGuard and friendlyError read it
handleSubmit(t, raw, online) ==
    LET in == TypedInspection(raw) IN
    /\ page[t] = "form" /\ pc[t] = "idle"
    /\ Len(submissions) + Len(latePushes) < MaxSubmissions
    /\ formIn' = [formIn EXCEPT ![t] = in]
    /\ IF validateForm(in) # <<>>
       THEN /\ outcome' = [outcome EXCEPT ![t] =
                   [Started("handleSubmit") EXCEPT !.alert = "Fix the following"]]
            /\ pc' = [pc EXCEPT ![t] = "end"]
       ELSE IF ~online
       THEN /\ outcome' = [outcome EXCEPT ![t] =
                   [Started("handleSubmit") EXCEPT
                       !.alert = "Submission failed.",
                       !.reason = friendlyError(OfflineError, online)]]
            /\ pc' = [pc EXCEPT ![t] = "end"]
       ELSE /\ outcome' = [outcome EXCEPT ![t] = Started("handleSubmit")]
            /\ pc' = [pc EXCEPT ![t] = "form_push"]
    /\ UNCHANGED <<detailStore, detailLocal, boundedStore, boundedLocal, page, otherParts,
                   formStore, formNo, mounting>>

\* await Promise.race([push(submissionsRef, payload), timeout]) resolves:
\* the push commits, the push fails, or the timeout fires first
handleSubmit_push(t, res, online) ==
    /\ pc[t] = "form_push"
    /\ res \in {"ok", "fail", "timeout"}
    /\ IF res = "ok"
       THEN /\ submissions' = Append(submissions, formNo[t])
            /\ outcome' = [outcome EXCEPT ![t].push = "ok"]
            /\ pc' = [pc EXCEPT ![t] = IF wantsSms(formIn[t]) THEN "form_sms" ELSE "form_reset"]
            /\ UNCHANGED latePushes
       ELSE /\ outcome' = [outcome EXCEPT ![t] =
                   [@ EXCEPT !.push = "fail", !.alert = "Submission failed.",
                             !.reason = friendlyError(
                                 IF res = "fail" THEN StoreError ELSE TimeoutError, online)]]
            /\ pc' = [pc EXCEPT ![t] = "end"]
            /\ latePushes' = IF res = "timeout" THEN Append(latePushes, formNo[t])
                             ELSE latePushes
            /\ UNCHANGED submissions
    /\ UNCHANGED <<detailStore, detailLocal, boundedStore, boundedLocal, page, otherParts,
                   counters, formLocal>>

\* A push that lost the race against the timeout resolves after all
latePush(ok) ==
    /\ latePushes # <<>>
    /\ latePushes' = Tail(latePushes)
    /\ submissions' = IF ok THEN Append(submissions, Head(latePushes)) ELSE submissions
    /\ UNCHANGED <<detailStore, detailLocal, boundedStore, boundedLocal, page, otherParts, pc, outcome,
                   counters, formLocal>>

\* await sendSms(phones, buildImpoundMessage(...)) resolves
handleSubmit_sms(t, ok) ==
    /\ pc[t] = "form_sms"
    /\ outcome' = [outcome EXCEPT ![t] =
           IF ok THEN [@ EXCEPT !.sms = "ok"]
                 ELSE [@ EXCEPT !.sms = "fail", !.reason = "SMS delivery failed"]]
    /\ pc' = [pc EXCEPT ![t] = "form_reset"]
    /\ UNCHANGED <<detailStore, detailLocal, boundedStore, boundedLocal, page, otherParts,
                   formStore, formLocal>>

\* alert('Inspection submitted.'); await hardReset(): reserveNumbers, then the
\* form is cleared (setFormErrors([]) included)
handleSubmit_hardReset(t, ok) ==
    /\ pc[t] = "form_reset"
    /\ outcome' = [outcome EXCEPT ![t].alert = "Inspection submitted."]
    /\ pc' = [pc EXCEPT ![t] = "end"]
    /\ IF ok
       THEN /\ counters' = reserveNumbers(counters)
            /\ formNo' = [formNo EXCEPT ![t] = reserveNumbers(counters)]
       ELSE UNCHANGED <<counters, formNo>>
    /\ UNCHANGED <<detailStore, detailLocal, boundedStore, boundedLocal, page, otherParts,
                   submissions, latePushes, mounting, formIn>>

\* The run is over: its alert is dismissed, finally { setIsSubmitting(false) } has run
FinishForm(t) ==
    /\ page[t] = "form" /\ pc[t] = "end"
    /\ pc' = [pc EXCEPT ![t] = "idle"]
    /\ outcome' = [outcome EXCEPT ![t] = NoOutcome]
    /\ formIn' = [formIn EXCEPT ![t] = NoInspection]
    /\ UNCHANGED <<detailStore, detailLocal, boundedStore, boundedLocal, page, otherParts,
                   formStore, formNo, mounting>>

(***************************************************************************)
(* Inspections list page: app/(protected)/inspections/page.tsx, on the     *)
(* record of the detail page                                               *)
(***************************************************************************)
\* if (d <= 100) continue
ReminderDays == 100

RECURSIVE SumOver(_, _)
SumOver(f, S) ==
    IF S = {} THEN 0
    ELSE LET x == CHOOSE y \in S : TRUE IN f[x] + SumOver(f, S \ {x})

NoListItem == [loaded |-> FALSE, boxStatus |-> "", reminded |-> FALSE, phones |-> <<>>]
\* mapChild(child) of the record, as far as the effect reads it
StoredListItem ==
    [loaded |-> TRUE, boxStatus |-> boxStatus, reminded |-> reminder100SentAt,
     phones |-> contactPhones]

\* The checks of the auto-remind loop on the record it: TRUE when the pass
\* of tab t goes on to send the reminder
needsReminder(t, it) ==
    /\ it.loaded
    /\ it.boxStatus = InStore
    /\ ~it.reminded
    /\ ~remindedIds[t]
    /\ daysInStore > ReminderDays
    /\ collectOwnerPhones(it.phones, <<>>) # <<>>

\* onValue callback of the list query: setItems(next), and with it a run of
\* the auto-remind effect (deps [items, db]) up to its first await.  The
\* query covers the newest PAGE_SIZE records, so the callback also runs when
\* another record of the page has changed and this one has not.
SnapshotItems(t) ==
    /\ page[t] = "list"
    /\ items' = [items EXCEPT ![t] = StoredListItem]
    /\ IF needsReminder(t, StoredListItem)
       THEN /\ remindersSent + SumOver(remindSms, Tabs) < MaxReminders
            /\ remindSms' = [remindSms EXCEPT ![t] = @ + 1]
       ELSE UNCHANGED remindSms
    /\ UNCHANGED <<detailStore, detailLocal, boundedStore, boundedLocal, formStore, formLocal,
                   nonListParts, page, pc, outcome, listStore, remindedIds, remindUpdate, remindFailed>>

\* await sendSms(toCsv, msg) of a pass resolves; a failure is caught and logged
remind_sms(t, ok) ==
    /\ remindSms[t] > 0
    /\ remindSms' = [remindSms EXCEPT ![t] = @ - 1]
    /\ IF ok
       THEN /\ remindersSent' = remindersSent + 1
            /\ remindUpdate' = [remindUpdate EXCEPT ![t] = @ + 1]
            /\ UNCHANGED remindFailed
       ELSE /\ remindFailed' = [remindFailed EXCEPT ![t] = TRUE]
            /\ UNCHANGED <<remindersSent, remindUpdate>>
    /\ UNCHANGED <<detailStore, detailLocal, boundedStore, boundedLocal, formStore, formLocal,
                   nonListParts, page, pc, outcome, reminder100SentAt, daysInStore, items, remindedIds>>

\* await update(.../impoundment, { reminder100SentAt: nowIso() }) of a pass
\* resolves; then remindedIds.current.add(it.id).  A failure is caught and logged.
remind_update(t, ok) ==
    /\ remindUpdate[t] > 0
    /\ remindUpdate' = [remindUpdate EXCEPT ![t] = @ - 1]
    /\ IF ok
       THEN /\ reminder100SentAt' = TRUE
            /\ remindedIds' = [remindedIds EXCEPT ![t] = TRUE]
            /\ items' = [items EXCEPT ![t] =
                   IF @.loaded THEN [@ EXCEPT !.reminded = TRUE] ELSE @]
            /\ UNCHANGED remindFailed
       ELSE /\ remindFailed' = [remindFailed EXCEPT ![t] = TRUE]
            /\ UNCHANGED <<reminder100SentAt, remindedIds, items>>
    /\ UNCHANGED <<detailStore, detailLocal, boundedStore, boundedLocal, formStore, formLocal,
                   nonListParts, page, pc, outcome, daysInStore, remindersSent, remindSms>>

\* Midnight: daysBetween(start, nowIso()) grows by one
DayPasses ==
    /\ daysInStore <= ReminderDays
    /\ daysInStore' = daysInStore + 1
    /\ UNCHANGED <<detailStore, detailLocal, boundedStore, boundedLocal, formStore, formLocal,
                   nonListParts, page, pc, outcome, reminder100SentAt, remindersSent, listLocal>>

(***************************************************************************)
(* Inspections list page: pagination over ndachecklists/submissions        *)
(*                                                                         *)
(* A record is its id (the push key; keys compare as the numbers here) and *)
(* its meta/createdAt: a number of milliseconds, or the ISO text of one.   *)
(* ISO texts of one format compare as their instants do, and Date.parse    *)
(* gives the instant back, so a text is kept as [isStr |-> TRUE, ms].      *)
(***************************************************************************)
CreatedAts == [isStr : BOOLEAN, ms : 1..MaxMs]

\* lastSeenOrderVal.current: null, or a createdAt
NullVal == [null |-> TRUE, isStr |-> FALSE, ms |-> 0]
Val(v) == [null |-> FALSE, isStr |-> v.isStr, ms |-> v.ms]

\* createdAtMs(meta)
createdAtMs(id) == dataset[id].ms

\* The order of orderByChild('meta/createdAt'): numbers before strings, then
\* by value, then by key
fbBefore(a, b) ==
    LET va == dataset[a]
        vb == dataset[b]
    IN IF va.isStr # vb.isStr THEN ~va.isStr
       ELSE IF va.ms # vb.ms THEN va.ms < vb.ms
       ELSE a < b

RECURSIVE orderByChild(_)
orderByChild(S) ==
    IF S = {} THEN <<>>
    ELSE LET m == CHOOSE x \in S : \A y \in S \ {x} : fbBefore(x, y)
         IN <<m>> \o orderByChild(S \ {m})

\* endAt(bound): the records whose createdAt is not after the bound (all of
\* them when there is no bound)
endAt(bound) ==
    {id \in DOMAIN dataset :
        \/ bound.null
        \/ LET v == dataset[id] IN
           IF v.isStr # bound.isStr THEN ~v.isStr ELSE v.ms <= bound.ms}

limitToLast(seq, n) ==
    IF Len(seq) <= n THEN seq ELSE SubSeq(seq, Len(seq) - n + 1, Len(seq))

\* arr.sort((a, b) => createdAtMs(b.meta) - createdAtMs(a.meta)): stable, newest first
RECURSIVE InsertDesc(_, _)
InsertDesc(x, sorted) ==
    IF sorted = <<>> THEN <<x>>
    ELSE IF createdAtMs(Head(sorted)) >= createdAtMs(x)
         THEN <<Head(sorted)>> \o InsertDesc(x, Tail(sorted))
         ELSE <<x>> \o sorted

RECURSIVE sortByCreatedAtDesc(_)
sortByCreatedAtDesc(arr) ==
    IF arr = <<>> THEN <<>>
    ELSE InsertDesc(arr[Len(arr)], sortByCreatedAtDesc(SubSeq(arr, 1, Len(arr) - 1)))

\* The sorted result of the query ... endAt(bound), limitToLast(PAGE_SIZE)
fetchPage(bound) ==
    sortByCreatedAtDesc(limitToLast(orderByChild(endAt(bound)), PAGE_SIZE))

\* last ? (last.meta?.createdAt ?? null) : null
lastCreatedAt(arr) == IF arr = <<>> THEN NullVal ELSE Val(dataset[arr[Len(arr)]])

\* The first onValue callback of the list query
firstSnapshot ==
    /\ loading
    /\ LET next == fetchPage(NullVal) IN
       /\ itemIds' = next
       /\ lastSeenOrderVal' = lastCreatedAt(next)
       /\ reachedEnd' = (Len(next) < PAGE_SIZE)
    /\ loading' = FALSE
    /\ UNCHANGED <<detailStore, detailLocal, boundedStore, boundedLocal, formStore, formLocal,
                   listStore, listLocal, serverParts, page, pc, outcome, dataset, loadingMore, moreEndAt>>

\* A later onValue callback of the list query: a field of one of the newest
\* PAGE_SIZE records has changed (ids and createdAt are as they were)
laterSnapshot ==
    /\ ~loading
    /\ LET next == fetchPage(NullVal) IN
       /\ itemIds' = next
       /\ lastSeenOrderVal' = lastCreatedAt(next)
       /\ reachedEnd' = (Len(next) < PAGE_SIZE)
    /\ UNCHANGED <<detailStore, detailLocal, boundedStore, boundedLocal, formStore, formLocal,
                   listStore, listLocal, serverParts, page, pc, outcome, dataset, loading,
                   loadingMore, moreEndAt>>

\* loadMore, up to await get(q); its early return leaves everything as it is
loadMore ==
    /\ ~loadingMore /\ ~reachedEnd /\ ~lastSeenOrderVal.null
    /\ loadingMore' = TRUE
    /\ moreEndAt' = IF lastSeenOrderVal.isStr THEN lastSeenOrderVal
                    ELSE [lastSeenOrderVal EXCEPT !.ms = @ - 1]
    /\ UNCHANGED <<detailStore, detailLocal, boundedStore, boundedLocal, formStore, formLocal,
                   listStore, listLocal, serverParts, page, pc, outcome, dataset, itemIds, lastSeenOrderVal,
                   reachedEnd, loading>>

\* merged: prev, then the records of the batch whose id prev does not hold, sorted
mergeBatch(prev, batch) ==
    sortByCreatedAtDesc(
        prev \o SelectSeq(batch, LAMBDA id : \A i \in 1..Len(prev) : prev[i] # id))

\* await get(q) of loadMore resolves; a failure is caught (alert) and only
\* finally { setLoadingMore(false) } runs
loadMore_get(ok) ==
    /\ loadingMore
    /\ loadingMore' = FALSE
    /\ moreEndAt' = NullVal
    /\ IF ok
       THEN LET batch == fetchPage(moreEndAt) IN
            IF batch = <<>>
            THEN /\ reachedEnd' = TRUE
                 /\ UNCHANGED <<itemIds, lastSeenOrderVal>>
            ELSE /\ itemIds' = mergeBatch(itemIds, batch)
                 /\ lastSeenOrderVal' = lastCreatedAt(batch)
                 /\ reachedEnd' = (reachedEnd \/ Len(batch) < PAGE_SIZE)
       ELSE UNCHANGED <<itemIds, lastSeenOrderVal, reachedEnd>>
    /\ UNCHANGED <<detailStore, detailLocal, boundedStore, boundedLocal, formStore, formLocal,
                   listStore, listLocal, serverParts, page, pc, outcome, dataset, loading>>

(***************************************************************************)
(* POST /api/sms: app/api/sms/route.ts                                     *)
(***************************************************************************)
\* A field of the JSON body: absent (undefined or null), a string, or a
\* value of another type
AbsentField == [kind |-> "absent", text |-> <<>>]
StrField(text) == [kind |-> "str", text |-> text]
OtherField == [kind |-> "other", text |-> <<>>]

NoRequest == [hasKey |-> FALSE, body |-> "none", phone |-> AbsentField, message |-> AbsentField]

NoResponse == [status |-> 0, ok |-> FALSE, error |-> "", upstreamStatus |-> 0, data |-> "none"]

\* NextResponse.json({ ok: false, error }, { status })
ErrorResponse(status, error) == [NoResponse EXCEPT !.status = status, !.error = error]

\* the statuses with which a Response cannot carry a body
NullBodyStatus == {101, 204, 205, 304}

\* upstream.ok
UpstreamOk(status) == status \in 200..299

\* phone.split(",").map((p) => p.trim()).filter(Boolean).join(",")
cleanedPhone(phone) == Join(splitCsv(phone))

\* POST up to await req.json()
POST(req) ==
    /\ routePc = "idle"
    /\ request' = req
    /\ IF ~req.hasKey
       THEN /\ response' = ErrorResponse(500, "Server is missing YOOLA_SMS_API_KEY.")
            /\ routePc' = "done"
       ELSE /\ response' = NoResponse
            /\ routePc' = "json"
    /\ UNCHANGED <<page, pc, outcome, detailStore, detailLocal, boundedStore, boundedLocal,
                   formStore, formLocal, listStore, listLocal, pagerVars, phoneVars, gateVars, sent, upstream>>

\* req.json() settles; the fields are read and checked and fetch is called
POST_json ==
    LET phone == Trim(request.phone.text)
        message == Trim(request.message.text)
    IN
    /\ routePc = "json"
    /\ IF \/ request.body # "object"
          \/ request.phone.kind = "other"
          \/ request.message.kind = "other"
       THEN /\ response' = ErrorResponse(500, "exception")
            /\ routePc' = "done"
            /\ UNCHANGED sent
       ELSE IF phone = <<>>
       THEN /\ response' = ErrorResponse(400, "Phone is required.")
            /\ routePc' = "done"
            /\ UNCHANGED sent
       ELSE IF message = <<>>
       THEN /\ response' = ErrorResponse(400, "Message is required.")
            /\ routePc' = "done"
            /\ UNCHANGED sent
       ELSE /\ sent' = Append(sent, [phone |-> cleanedPhone(phone), message |-> message])
            /\ routePc' = "fetch"
            /\ UNCHANGED response
    /\ UNCHANGED <<page, pc, outcome, detailStore, detailLocal, boundedStore, boundedLocal,
                   formStore, formLocal, listStore, listLocal, pagerVars, phoneVars, gateVars, request, upstream>>

\* await fetch(...) settles: it rejects (status 0) or the provider answers
POST_fetch(status) ==
    /\ routePc = "fetch"
    /\ IF status = 0
       THEN /\ response' = ErrorResponse(500, "exception")
            /\ routePc' = "done"
            /\ UNCHANGED upstream
       ELSE /\ upstream' = status
            /\ routePc' = "respond"
            /\ UNCHANGED response
    /\ UNCHANGED <<page, pc, outcome, detailStore, detailLocal, boundedStore, boundedLocal,
                   formStore, formLocal, listStore, listLocal, pagerVars, phoneVars, gateVars, request, sent>>

\* upstream.json().catch(() => ({})) settles and the answer is built:
\* NextResponse.json throws for a status that admits no body
POST_respond(parsed) ==
    /\ routePc = "respond"
    /\ routePc' = "done"
    /\ IF upstream \in NullBodyStatus
       THEN response' = ErrorResponse(500, "exception")
       ELSE response' = [status |-> upstream, ok |-> UpstreamOk(upstream), error |-> "",
                         upstreamStatus |-> upstream,
                         data |-> IF parsed THEN "payload" ELSE "empty"]
    /\ UNCHANGED <<page, pc, outcome, detailStore, detailLocal, boundedStore, boundedLocal,
                   formStore, formLocal, listStore, listLocal, pagerVars, phoneVars, gateVars, request, sent, upstream>>

\* The response has gone out; the route is ready for the next request
FinishRoute ==
    /\ routePc = "done"
    /\ routePc' = "idle"
    /\ request' = NoRequest
    /\ sent' = <<>>
    /\ upstream' = 0
    /\ response' = NoResponse
    /\ UNCHANGED <<page, pc, outcome, detailStore, detailLocal, boundedStore, boundedLocal,
                   formStore, formLocal, listStore, listLocal, pagerVars, phoneVars, gateVars>>

(***************************************************************************)
(* AuthGate: components/AuthGate.tsx                                       *)
(***************************************************************************)
\* useState({ loading: true, user: null, allowed: null, error: null }); user
\* is kept as "there is one", allowed as "null", "true" or "false"
InitialGateState == [loading |-> TRUE, user |-> FALSE, allowed |-> "null", error |-> ""]

\* the role check of the callback on the value of roles/{uid}
roleOk(doc, required) == doc.exists /\ doc.role # "" /\ doc.active /\ doc.role \in required

\* onAuthStateChanged calls back with u (TRUE: a user, FALSE: null); with a
\* user the callback goes on to await getIdTokenResult
authStateChanged(u) ==
    /\ gateMounted
    /\ authEvents < MaxAuthEvents
    /\ authUser # (IF u THEN "user" ELSE "none")
    /\ authUser' = (IF u THEN "user" ELSE "none")
    /\ authEvents' = authEvents + 1
    /\ IF ~u
       THEN /\ gate' = [loading |-> FALSE, user |-> FALSE, allowed |-> "false", error |-> ""]
            /\ UNCHANGED authChecks
       ELSE /\ authChecks' = authChecks + 1
            /\ UNCHANGED gate
    /\ UNCHANGED <<page, pc, outcome, detailStore, detailLocal, boundedStore, boundedLocal,
                   formStore, formLocal, listStore, listLocal, pagerVars, routeVars, phoneVars,
                   requireAnyRole, roleDoc, gateMounted>>

\* a callback started for a user gets past its awaits (getIdTokenResult, and
\* get(roles/{uid}) when roles are required) and sets the state
authChecked(getOk) ==
    /\ gateMounted
    /\ authChecks > 0
    /\ authChecks' = authChecks - 1
    /\ gate' = IF requireAnyRole # {}
               THEN IF getOk /\ roleOk(roleDoc, requireAnyRole)
                    THEN [loading |-> FALSE, user |-> TRUE, allowed |-> "true", error |-> ""]
                    ELSE [loading |-> FALSE, user |-> TRUE, allowed |-> "false",
                          error |-> "forbidden"]
               ELSE [loading |-> FALSE, user |-> TRUE, allowed |-> "true", error |-> ""]
    /\ UNCHANGED <<page, pc, outcome, detailStore, detailLocal, boundedStore, boundedLocal,
                   formStore, formLocal, listStore, listLocal, pagerVars, routeVars, phoneVars,
                   requireAnyRole, roleDoc, authUser, authEvents, gateMounted>>

\* the effect after a render with allowed === false: router.replace(login);
\* the navigation takes the gate off the screen
kickToLogin ==
    /\ gateMounted
    /\ ~gate.loading /\ gate.allowed = "false"
    /\ gateMounted' = FALSE
    /\ UNCHANGED <<page, pc, outcome, detailStore, detailLocal, boundedStore, boundedLocal,
                   formStore, formLocal, listStore, listLocal, pagerVars, routeVars, phoneVars,
                   gate, requireAnyRole, roleDoc, authUser, authChecks, authEvents>>

\* what AuthGate returns for its state
Rendered ==
    IF ~gateMounted THEN "nothing"
    ELSE IF gate.loading THEN "fallback"
    ELSE IF gate.allowed = "false" /\ gate.user THEN "denied"
    ELSE "children"

(***************************************************************************)
(* What the users type                                                     *)
(***************************************************************************)
SomeDate == <<"2", "0", "2", "5", "-", "0", "1", "-", "3", "1">>
SomeName == <<"A", "n", "n">>
OtherName == <<"B", "o", "b">>
LocalPhone == <<"0", "7", "0", "0", "0", "0", "0", "0", "0", "1">>

\* box counts typed into a release form: 0 .. one more than was impounded
BoxTexts == {String(n) : n \in 0..(MaxBoxes + 1)}

GoodReleaseForm(b) ==
    [releaseDate |-> SomeDate, clientName |-> SomeName, telephone |-> LocalPhone,
     releasedBy |-> OtherName, comment |-> <<>>, boxesReleased |-> b]

\* complete forms, differing in the number of boxes
CompleteForms == {GoodReleaseForm(b) : b \in BoxTexts}

\* forms with one thing missing or malformed
FlawedForms ==
    {[GoodReleaseForm(<<"1">>) EXCEPT ![k] = <<>>] :
        k \in {"releaseDate", "clientName", "telephone", "releasedBy", "boxesReleased"}}
    \cup {[GoodReleaseForm(<<"1">>) EXCEPT !.clientName = <<" ">>],
          GoodReleaseForm(<<"x">>), GoodReleaseForm(<<"2", "x">>)}

GoodBoundedInput(b) ==
    [relDate |-> SomeDate, clientName |-> SomeName, telephone |-> LocalPhone,
     releasedBy |-> OtherName, comment |-> <<>>, boxesReleased |-> b,
     ack1 |-> TRUE, ack2 |-> TRUE, confirmText |-> RELEASE]

CompleteBoundedInputs == {GoodBoundedInput(b) : b \in BoxTexts}

GoodInspection(b) ==
    [drugshopName |-> SomeName, drugshopContactPhones |-> LocalPhone,
     boxesImpounded |-> b, sendSms |-> TRUE]

\* inspections with and without boxes, with and without SMS, and flawed ones
InspectionInputs ==
    {GoodInspection(String(MaxBoxes)), GoodInspection(<<>>),
     [GoodInspection(String(MaxBoxes)) EXCEPT !.sendSms = FALSE],
     [GoodInspection(String(MaxBoxes)) EXCEPT !.drugshopName = <<" ">>],
     [GoodInspection(String(MaxBoxes)) EXCEPT !.drugshopContactPhones = <<>>],
     [GoodInspection(String(MaxBoxes)) EXCEPT !.drugshopContactPhones = <<"1", "2">>]}

\* release inputs of the bounded-drugs modal with one thing missing or malformed
FlawedBoundedInputs ==
    {[GoodBoundedInput(<<"1">>) EXCEPT ![k] = <<>>] :
        k \in {"relDate", "clientName", "telephone", "releasedBy", "boxesReleased",
               "confirmText"}}
    \cup {[GoodBoundedInput(<<"1">>) EXCEPT !.releasedBy = <<" ">>],
          [GoodBoundedInput(<<"1">>) EXCEPT !.telephone = <<"1", "2">>],
          [GoodBoundedInput(<<"1">>) EXCEPT !.ack2 = FALSE],
          GoodBoundedInput(<<"x">>)}

(***************************************************************************)
(* Detail page, two tabs on the same record                                *)
(***************************************************************************)
\* The record as handleSubmit of the inspection form leaves it: boxes
\* impounded, no boxStatus yet, no release record.
InitDetailStore ==
    /\ boxStatus = ""
    /\ releaseRecord = <<>>
    /\ totalBoxes = String(MaxBoxes)
    /\ contactPhones \in {<<>>, LocalPhone}

InitDetailLocal ==
    /\ item = [t \in Tabs |-> NoItem]
    /\ showModal = [t \in Tabs |-> FALSE]
    /\ saveArg = [t \in Tabs |-> NotYetInStore]
    /\ relForm = [t \in Tabs |-> NoReleaseInput]

\* The record as handleSubmit of the legacy inspection form leaves it:
\* boxesImpounded a digit text, status 'submitted', no release yet.  Other
\* writers store the count as a number.
InitBoundedStore ==
    /\ boxesImpounded \in {StrVal(String(MaxBoxes)), NumVal(MaxBoxes)}
    /\ invStatus = "submitted"
    /\ releases = <<>>

InitBoundedLocal ==
    /\ rows = [t \in Tabs |-> NoRow]
    /\ target = [t \in Tabs |-> NoRow]
    /\ open = [t \in Tabs |-> FALSE]
    /\ relInput = [t \in Tabs |-> NoBoundedInput]

\* The pages not under study: their store and their local state stay as created.
IdleDetail ==
    /\ boxStatus = "" /\ releaseRecord = <<>> /\ totalBoxes = String(MaxBoxes)
    /\ contactPhones = LocalPhone
    /\ InitDetailLocal

IdleBounded ==
    /\ boxesImpounded = StrVal(String(MaxBoxes)) /\ invStatus = "submitted" /\ releases = <<>>
    /\ InitBoundedLocal

InitFormStore ==
    /\ submissions = <<>>
    /\ counters = 0
    /\ latePushes = <<>>

InitFormLocal ==
    /\ formNo = [t \in Tabs |-> 0]
    /\ mounting = [t \in Tabs |-> FALSE]
    /\ formIn = [t \in Tabs |-> NoInspection]

IdleForm == InitFormStore /\ InitFormLocal

InitListStore ==
    /\ reminder100SentAt = FALSE
    /\ daysInStore = ReminderDays
    /\ remindersSent = 0

InitListLocal ==
    /\ items = [t \in Tabs |-> NoListItem]
    /\ remindedIds = [t \in Tabs |-> FALSE]
    /\ remindSms = [t \in Tabs |-> 0]
    /\ remindUpdate = [t \in Tabs |-> 0]
    /\ remindFailed = [t \in Tabs |-> FALSE]

IdleList == InitListStore /\ InitListLocal

IdlePager ==
    /\ dataset = <<>>
    /\ itemIds = <<>>
    /\ lastSeenOrderVal = NullVal
    /\ reachedEnd = FALSE
    /\ loading = TRUE
    /\ loadingMore = FALSE
    /\ moreEndAt = NullVal

\* No request is being handled
IdleRoute ==
    /\ request = NoRequest
    /\ routePc = "idle"
    /\ sent = <<>>
    /\ upstream = 0
    /\ response = NoResponse

\* No text is being normalised
IdlePhones ==
    /\ phoneIn = <<>>
    /\ phoneApplied = "none"
    /\ phoneOut = <<>>

\* The gate has let the user in
IdleGate ==
    /\ gate = [loading |-> FALSE, user |-> TRUE, allowed |-> "true", error |-> ""]
    /\ requireAnyRole = {}
    /\ roleDoc = [exists |-> FALSE, role |-> "", active |-> TRUE]
    /\ authUser = "user"
    /\ authChecks = 0
    /\ authEvents = 0
    /\ gateMounted = TRUE

IdleServer == IdleRoute /\ IdlePhones /\ IdleGate

IdleNonList == IdlePager /\ IdleServer

\* The parts no tab of the specification has open
IdleOthers == IdleList /\ IdleNonList

InitTabs ==
    /\ pc = [t \in Tabs |-> "idle"]
    /\ outcome = [t \in Tabs |-> NoOutcome]

InitDetail ==
    /\ page = [t \in Tabs |-> "detail"]
    /\ InitTabs
    /\ InitDetailStore
    /\ InitDetailLocal
    /\ IdleBounded
    /\ IdleForm
    /\ IdleOthers

DetailStep(t, forms) ==
    \/ Snapshot(t)
    \/ \E draft \in BoxStatusSet : saveBoxStatus(t, draft)
    \/ \E ok \in BOOLEAN : saveBoxStatus_update(t, ok)
    \/ \E ok \in BOOLEAN : saveBoxStatus_sms(t, ok)
    \/ OpenReleaseModal(t)
    \/ CloseReleaseModal(t)
    \/ \E f \in forms, c \in BOOLEAN : handleReleaseSubmit(t, f, c)
    \/ \E ok \in BOOLEAN : handleReleaseSubmit_sms(t, ok)
    \/ \E ok \in BOOLEAN : handleReleaseSubmit_update(t, ok)
    \/ FinishDetail(t)

NextDetail == \E t \in Tabs : DetailStep(t, CompleteForms)

SpecDetail == InitDetail /\ [][NextDetail]_vars

(***************************************************************************)
(* Bounded-drugs pages, two tabs on the same record                        *)
(***************************************************************************)
InitBounded ==
    /\ page \in [Tabs -> BoundedPages]
    /\ InitTabs
    /\ InitBoundedStore
    /\ InitBoundedLocal
    /\ IdleDetail
    /\ IdleForm
    /\ IdleOthers

BoundedStep(t, inputs) ==
    \/ SnapshotRows(t)
    \/ openModal(t)
    \/ closeModal(t)
    \/ \E raw \in inputs : handleSubmitRelease(t, raw)
    \/ \E ok \in BOOLEAN : handleSubmitRelease_push(t, ok)
    \/ \E ok \in BOOLEAN : handleSubmitRelease_update(t, ok)
    \/ \E ok \in BOOLEAN : handleSubmitRelease_sms(t, ok)
    \/ FinishBounded(t)

NextBounded == \E t \in Tabs : BoundedStep(t, CompleteBoundedInputs)

SpecBounded == InitBounded /\ [][NextBounded]_vars

(***************************************************************************)
(* Inspection form, two tabs                                               *)
(***************************************************************************)
InitForm ==
    /\ page = [t \in Tabs |-> "form"]
    /\ InitTabs
    /\ InitFormStore
    /\ formNo = [t \in Tabs |-> 0]
    /\ mounting = [t \in Tabs |-> TRUE]
    /\ formIn = [t \in Tabs |-> NoInspection]
    /\ IdleDetail
    /\ IdleBounded
    /\ IdleOthers

FormStep(t, inputs) ==
    \/ \E ok \in BOOLEAN : reserveOnMount(t, ok)
    \/ \E raw \in inputs, online \in BOOLEAN : handleSubmit(t, raw, online)
    \/ \E res \in {"ok", "fail", "timeout"}, online \in BOOLEAN : handleSubmit_push(t, res, online)
    \/ \E ok \in BOOLEAN : handleSubmit_sms(t, ok)
    \/ \E ok \in BOOLEAN : handleSubmit_hardReset(t, ok)
    \/ FinishForm(t)

NextForm ==
    \/ \E t \in Tabs : FormStep(t, InspectionInputs)
    \/ \E ok \in BOOLEAN : latePush(ok)

SpecForm == InitForm /\ [][NextForm]_vars

(***************************************************************************)
(* One tab on any one of the pages, typing complete and flawed forms       *)
(***************************************************************************)
Pages == {"detail", "form"} \cup BoundedPages

InitPages ==
    /\ \E p \in Pages : page = [t \in Tabs |-> IF t = "tab1" THEN p ELSE "none"]
    /\ InitTabs
    /\ InitDetailStore
    /\ InitDetailLocal
    /\ InitBoundedStore
    /\ InitBoundedLocal
    /\ InitFormStore
    /\ formNo = [t \in Tabs |-> 0]
    /\ mounting = [t \in Tabs |-> page[t] = "form"]
    /\ formIn = [t \in Tabs |-> NoInspection]
    /\ IdleOthers

NextPages ==
    \/ \E t \in Tabs : DetailStep(t, CompleteForms \cup FlawedForms)
    \/ \E t \in Tabs : BoundedStep(t, CompleteBoundedInputs \cup FlawedBoundedInputs)
    \/ \E t \in Tabs : FormStep(t, InspectionInputs)
    \/ \E ok \in BOOLEAN : latePush(ok)

SpecPages == InitPages /\ [][NextPages]_vars

(***************************************************************************)
(* Inspections list page in one tab, list or detail page in the other      *)
(***************************************************************************)
InitList ==
    /\ \E p \in {"list", "detail"} : page = [t \in Tabs |-> IF t = "tab1" THEN "list" ELSE p]
    /\ InitTabs
    /\ boxStatus \in {"", InStore}
    /\ releaseRecord = <<>>
    /\ totalBoxes = String(MaxBoxes)
    /\ contactPhones \in {<<>>, LocalPhone}
    /\ InitDetailLocal
    /\ IdleBounded
    /\ IdleForm
    /\ InitListStore
    /\ InitListLocal
    /\ IdleNonList

ListStep(t) ==
    \/ SnapshotItems(t)
    \/ \E ok \in BOOLEAN : remind_sms(t, ok)
    \/ \E ok \in BOOLEAN : remind_update(t, ok)

NextList ==
    \/ \E t \in Tabs : ListStep(t)
    \/ \E t \in Tabs : DetailStep(t, {GoodReleaseForm(<<"1">>)})
    \/ DayPasses

SpecList == InitList /\ [][NextList]_vars

(***************************************************************************)
(* Pagination of the list over a fixed dataset                             *)
(***************************************************************************)
InitPager ==
    /\ page = [t \in Tabs |-> "none"]
    /\ InitTabs
    /\ IdleDetail
    /\ IdleBounded
    /\ IdleForm
    /\ IdleList
    /\ IdleServer
    /\ \E n \in 0..MaxRecords : dataset \in [1..n -> CreatedAts]
    /\ itemIds = <<>>
    /\ lastSeenOrderVal = NullVal
    /\ reachedEnd = FALSE
    /\ loading = TRUE
    /\ loadingMore = FALSE
    /\ moreEndAt = NullVal

NextPager ==
    \/ firstSnapshot
    \/ loadMore
    \/ \E ok \in BOOLEAN : loadMore_get(ok)

SpecPager == InitPager /\ [][NextPager]_vars

\* The first snapshot arrives, the user keeps clicking "load more", and a
\* query that is repeated often enough is answered.
SpecPagerFair ==
    /\ SpecPager
    /\ WF_vars(firstSnapshot)
    /\ WF_vars(loadMore)
    /\ SF_vars(loadMore_get(TRUE))

\* The same with the live subscription calling back whenever a record changes
NextPagerLive ==
    \/ NextPager
    \/ laterSnapshot

SpecPagerLive == InitPager /\ [][NextPagerLive]_vars

(***************************************************************************)
(* POST /api/sms, one request after another                                *)
(***************************************************************************)
\* phone and message fields a client can put in the body
PhoneFields ==
    {AbsentField, OtherField, StrField(<<>>), StrField(<<" ">>), StrField(<<",">>),
     StrField(<<"7">>), StrField(<<" ", "7", " ", ",", ",", " ", "8", " ">>)}

MessageFields == {AbsentField, OtherField, StrField(<<" ">>), StrField(<<" ", "h", "i">>)}

\* requests: the credential configured or not; a body that is no JSON, the
\* JSON null, or an object with the two fields
Requests ==
    {[hasKey |-> k, body |-> b, phone |-> AbsentField, message |-> AbsentField] :
        k \in BOOLEAN, b \in {"invalid", "null"}}
    \cup [hasKey : BOOLEAN, body : {"object"}, phone : PhoneFields, message : MessageFields]

\* what fetch can settle with: 0 is a rejection, the others the provider's status
UpstreamStatuses == {0, 200, 204, 400, 500}

InitRoute ==
    /\ page = [t \in Tabs |-> "none"]
    /\ InitTabs
    /\ IdleDetail
    /\ IdleBounded
    /\ IdleForm
    /\ IdleList
    /\ IdlePager
    /\ IdlePhones
    /\ IdleGate
    /\ IdleRoute

NextRoute ==
    \/ \E req \in Requests : POST(req)
    \/ POST_json
    \/ \E status \in UpstreamStatuses : POST_fetch(status)
    \/ \E parsed \in BOOLEAN : POST_respond(parsed)
    \/ FinishRoute

SpecRoute == InitRoute /\ [][NextRoute]_vars

(***************************************************************************)
(* Phone normalisation applied again and again to a text                   *)
(***************************************************************************)
\* how often a function is applied to its own result
MaxApply == 2

Intl256Phone == <<"2", "5", "6">> \o Tail(LocalPhone)

\* single phone texts: the three accepted forms, with blanks, and texts that
\* are no phone
PhoneTokens ==
    {LocalPhone, Intl256Phone, <<"+">> \o Intl256Phone,
     <<" ">> \o LocalPhone, <<"0", "7", " ">> \o Tail(Tail(LocalPhone)),
     Intl256Phone \o <<" ">>, Tail(LocalPhone), <<"+">> \o LocalPhone,
     <<"0", "7">>, <<"x", " ", "y">>, <<" ">>, <<>>}

Separators == {<<",">>, <<" ", ",", " ">>, <<",", ",">>}

\* texts given to the functions: one phone text, or two of them in a csv
PhoneTexts ==
    PhoneTokens \cup {a \o sep \o b : a \in PhoneTokens, b \in PhoneTokens, sep \in Separators}

\* the function named f applied to x
ApplyPhone(f, x) ==
    IF f = "normalizeUgPhone" THEN normalizeUgPhone(x)
    ELSE IF f = "recipients" THEN recipients(x)
    ELSE collectOwnerPhones(x, <<>>)

\* f is applied to the text given, or to its own last result
applyPhone(f) ==
    /\ phoneApplied \in {"none", f}
    /\ Len(phoneOut) < MaxApply
    /\ phoneApplied' = f
    /\ phoneOut' = Append(phoneOut,
                          ApplyPhone(f, IF phoneOut = <<>> THEN phoneIn
                                        ELSE phoneOut[Len(phoneOut)]))
    /\ UNCHANGED <<page, pc, outcome, detailStore, detailLocal, boundedStore, boundedLocal,
                   formStore, formLocal, listStore, listLocal, pagerVars, routeVars, gateVars,
                   phoneIn>>

InitPhones ==
    /\ page = [t \in Tabs |-> "none"]
    /\ InitTabs
    /\ IdleDetail
    /\ IdleBounded
    /\ IdleForm
    /\ IdleList
    /\ IdlePager
    /\ IdleRoute
    /\ IdleGate
    /\ phoneIn \in PhoneTexts
    /\ phoneApplied = "none"
    /\ phoneOut = <<>>

NextPhones ==
    \/ applyPhone("normalizeUgPhone")
    \/ applyPhone("recipients")
    \/ applyPhone("collectOwnerPhones")

SpecPhones == InitPhones /\ [][NextPhones]_vars

(***************************************************************************)
(* AuthGate while users sign in and out                                    *)
(***************************************************************************)
\* what roles/{uid} can hold
RoleDocs ==
    {[exists |-> FALSE, role |-> "", active |-> TRUE]}
    \cup [exists : {TRUE}, role : {"", "admin", "viewer"}, active : BOOLEAN]

InitGate ==
    /\ page = [t \in Tabs |-> "none"]
    /\ InitTabs
    /\ IdleDetail
    /\ IdleBounded
    /\ IdleForm
    /\ IdleList
    /\ IdlePager
    /\ IdleRoute
    /\ IdlePhones
    /\ gate = InitialGateState
    /\ requireAnyRole \in {{}, {"admin"}}
    /\ roleDoc \in RoleDocs
    /\ authUser = "unknown"
    /\ authChecks = 0
    /\ authEvents = 0
    /\ gateMounted = TRUE

NextGate ==
    \/ \E u \in BOOLEAN : authStateChanged(u)
    \/ \E getOk \in BOOLEAN : authChecked(getOk)
    \/ kickToLogin

SpecGate == InitGate /\ [][NextGate]_vars

(***************************************************************************)
(* Properties                                                              *)
(***************************************************************************)
\* The run of tab t has issued no store write, no push and no SMS request.
NoNetwork(t) ==
    outcome[t].push = "none" /\ outcome[t].write = "none" /\ outcome[t].sms = "none"

\* The run of tab t is over and has issued nothing.
Rejected(t) == pc[t] = "end" /\ NoNetwork(t)

ReleaseOps == {"handleReleaseSubmit", "handleSubmitRelease"}

\* Position of a stored status in the order Not yet in store, In Store, Released
StatusRank(s) == IF s = Released THEN 2 ELSE IF s = InStore THEN 1 ELSE 0

\* The boxes-released text of the release submission tab t is running
SubmittedText(t) ==
    IF outcome[t].op = "handleReleaseSubmit" THEN relForm[t].form.boxesReleased
    ELSE relInput[t].boxesReleased

\* The record's stored count of impounded boxes, on the page tab t has open
StoredImpounded(t) ==
    IF page[t] = "detail" THEN DigitsValue(totalBoxes) ELSE num(boxesImpounded)

\* Tab t, idle before the step, has submitted a release form in the step
SubmitsRelease(t) == pc[t] = "idle" /\ outcome'[t].op \in ReleaseOps

\* C1: once the stored status is Released it stays Released and the release
\* record stays as it is: no later step of any tab changes either.
C1_ReleasedIsTerminal ==
    [][boxStatus = Released => (boxStatus' = Released /\ releaseRecord' = releaseRecord)]_vars

\* C2: the stored status only moves forward in the order Not yet in store,
\* In Store, Released: no step commits a back-transition.
C2_NoBackTransition ==
    [][StatusRank(boxStatus') >= StatusRank(boxStatus)]_vars

\* C3: every release that commits (a new entry under releases/{id}) releases
\* no more boxes than the store holds as boxesImpounded at that moment, also
\* when another tab has changed the count since the modal was opened.
C3_ReleaseWithinStored ==
    [][Len(releases') > Len(releases)
         => releases'[Len(releases')] <= num(boxesImpounded)]_vars

\* C4: a release submission whose boxesReleased exceeds the record's stored
\* count of impounded boxes is rejected at the click, before anything is
\* issued; a complete submission of exactly that count is not rejected.
C4_RejectsAboveImpounded ==
    [][\A t \in Tabs :
         SubmitsRelease(t) =>
           /\ (AllDigits(SubmittedText(t)') /\ DigitsValue(SubmittedText(t)') > StoredImpounded(t))
                 => Rejected(t)'
           /\ (/\ DigitsValue(SubmittedText(t)') = StoredImpounded(t)
               /\ \/ relForm'[t].form \in CompleteForms /\ relForm'[t].consent
                  \/ relInput'[t] \in CompleteBoundedInputs)
                 => outcome'[t].alert \notin {"Fix the following",
                                              "You are releasing more than are impounded."}]_vars

\* C5: a release submission whose boxesReleased is not a positive integer
\* (empty, not a digit text, or zero) is rejected at the click, before
\* anything is issued.
C5_RejectsNonPositive ==
    [][\A t \in Tabs :
         (/\ SubmitsRelease(t)
          /\ \/ ~AllDigits(SubmittedText(t)')
             \/ DigitsValue(SubmittedText(t)') <= 0)
           => Rejected(t)']_vars

\* C6: the release record of an inspection is created once: when it exists,
\* no later step of any tab replaces it.
C6_ReleaseRecordWrittenOnce ==
    [][releaseRecord # <<>> => releaseRecord' = releaseRecord]_vars

\* C7: in every release workflow the store write has committed before the
\* SMS request is made: an SMS under way or done implies the write is done.
C7_PersistBeforeNotify ==
    \A t \in Tabs :
        (/\ outcome[t].op \in ReleaseOps
         /\ \/ pc[t] \in {"release_sms", "submit_sms"}
            \/ outcome[t].sms # "none")
          => outcome[t].write = "ok"

\* C8: a failed SMS never aborts the workflow: the run's write (or push) has
\* committed, and the failure is shown as a warning with its message.
C8_SmsFailureTolerated ==
    \A t \in Tabs :
        outcome[t].sms = "fail"
          => /\ outcome[t].write = "ok" \/ outcome[t].push = "ok"
             /\ outcome[t].reason # ""

\* C9: a failed store write ends the workflow there and its message is shown
\* to the user: nothing of the run is still to come, and the run's alert
\* carries the underlying error.
C9_WriteFailureSurfaced ==
    \A t \in Tabs :
        (outcome[t].write = "fail" \/ outcome[t].push = "fail")
          => /\ pc[t] = "end"
             /\ outcome[t].alert # ""
             /\ outcome[t].reason # ""

\* The validation messages of the three forms
ValidationAlerts ==
    {"Fix the following", "Release date is required.", "Client name is required.",
     "Telephone number is required.", "Enter a valid phone number (e.g. +2567XXXXXXX).",
     "Released by is required.", "Enter a valid number of boxes to release.",
     "You are releasing more than are impounded.",
     "Complete acknowledgements and type RELEASE or the Serial."}

\* The form submitted by the run of tab t lacks a required field.
MissingRequired(t) ==
    \/ /\ outcome[t].op = "handleReleaseSubmit"
       /\ \/ \E k \in {"releaseDate", "clientName", "telephone", "releasedBy",
                       "boxesReleased"} : Trim(relForm[t].form[k]) = <<>>
          \/ ~relForm[t].consent
    \/ /\ outcome[t].op = "handleSubmitRelease"
       /\ \E k \in {"relDate", "clientName", "telephone", "releasedBy",
                    "boxesReleased"} : Trim(relInput[t][k]) = <<>>
    \/ /\ outcome[t].op = "handleSubmit"
       /\ Trim(formIn[t].drugshopName) = <<>>

C11_ReminderOnce ==
    [][remindersSent' > remindersSent => (remindersSent = 0 /\ ~reminder100SentAt)]_vars

\* The merged list holds no id twice.
NoDuplicateIds ==
    \A i, j \in 1..Len(itemIds) : itemIds[i] = itemIds[j] => i = j

\* C12: over a fixed dataset repeated loadMore calls come to an end
\* (reachedEnd is set), and the merged list never holds an id twice.
C12_LoadMoreTerminates == <>reachedEnd /\ []NoDuplicateIds

\* C13: no two submitted inspections carry the same reserved number (the
\* document number and the serial number move together; 0 stands for a form
\* that never got a number).
C13_UniqueNumbers ==
    \A i, j \in 1..Len(submissions) :
        (submissions[i] # 0 /\ submissions[i] = submissions[j]) => i = j

\* C14: nothing is retried without a click.  Within a handler run a failed
\* write, push or SMS is not attempted again, and once a reminder pass of a
\* session has failed that session starts no further reminder send.
C14_NoAutomaticRetry ==
    [][\A t \in Tabs :
         /\ \A k \in {"write", "push", "sms"} :
                outcome[t][k] = "fail" => outcome'[t][k] \in {"fail", "none"}
         /\ remindFailed[t] => remindSms'[t] <= remindSms[t]]_vars

\* C15: in saveBoxStatus the notification comes after the patch: an SMS of
\* the run is under way or done only when the run's patch has succeeded, the
\* status saved is In Store and the record has a facility phone; a run whose
\* patch has failed is over and has sent nothing.
C15_PatchThenNotify ==
    \A t \in Tabs :
        outcome[t].op = "saveBoxStatus" =>
            /\ (pc[t] = "save_sms" \/ outcome[t].sms # "none")
                 => /\ outcome[t].write = "ok"
                    /\ saveArg[t] = InStore
                    /\ collectOwnerPhones(contactPhones, <<>>) # <<>>
            /\ outcome[t].write = "fail" => (pc[t] = "end" /\ outcome[t].sms = "none")

\* C15: a saveBoxStatus run has patched the status to In Store and sent its SMS.
C15_Witness ==
    \E t \in Tabs :
        /\ outcome[t].op = "saveBoxStatus"
        /\ outcome[t].write = "ok"
        /\ outcome[t].sms = "ok"
        /\ boxStatus = InStore

\* A handleReleaseSubmit run whose SMS failed, or that found no recipient
\* phone, is over and has written nothing.
ReleaseRunStopped(t) ==
    (/\ outcome[t].op = "handleReleaseSubmit"
     /\ \/ outcome[t].sms = "fail"
        \/ outcome[t].reason = "No facility contact phone available.")
        => (outcome[t].write = "none" /\ pc[t] = "end")

\* C16: in handleReleaseSubmit the SMS must succeed first: every step that
\* stores a release record or turns the stored status to Released is the
\* update of a run whose SMS send has succeeded, and a run whose SMS failed or
\* that had no recipient phone ends without writing boxStatus or releaseRecord.
C16_SmsBeforeRelease ==
    [][/\ \A t \in Tabs : ReleaseRunStopped(t)'
       /\ (releaseRecord' # releaseRecord \/ (boxStatus' = Released /\ boxStatus # Released))
            => \E t \in Tabs : /\ pc[t] = "release_update"
                               /\ outcome[t].sms = "ok"
                               /\ outcome'[t].write = "ok"]_vars

\* C16: one release run has ended on a failed SMS with the record still
\* In Store and no release record, and another has its SMS out and is about
\* to write.
C16_Witness ==
    \E t, u \in Tabs :
        /\ outcome[t].op = "handleReleaseSubmit" /\ outcome[t].sms = "fail"
        /\ pc[t] = "end"
        /\ boxStatus = InStore /\ releaseRecord = <<>>
        /\ outcome[u].op = "handleReleaseSubmit" /\ outcome[u].sms = "ok"
        /\ pc[u] = "release_update"

\* C17: Released is entered only from In Store: whenever handleReleaseSubmit's
\* update writes boxStatus = 'Released', the stored boxStatus at that moment
\* is 'In Store' (not 'Not yet in store', not unset, not already Released).
C17_ReleasedOnlyFromInStore ==
    [][\A t \in Tabs :
         (pc[t] = "release_update" /\ outcome'[t].write = "ok") => boxStatus = InStore]_vars

\* The field is missing or blank: (field ?? "").trim() is empty.
Blank(f) == f.kind # "other" /\ Trim(f.text) = <<>>

\* The field is a string with something in it.
Filled(f) == f.kind = "str" /\ Trim(f.text) # <<>>

\* The provider has not answered any message of the request.
NothingForwarded == upstream = 0

\* C18: POST /api/sms answers 500 with ok:false when the credential is
\* missing, 400 'Phone is required.' / 'Message is required.' when that
\* field is missing or blank (the other one being a string or absent), and
\* 500 with ok:false on an exception; in none of these cases has a message
\* been forwarded to the provider.
C18_ErrorAnswers ==
    routePc = "done" =>
        /\ ~request.hasKey
             => (response.status = 500 /\ ~response.ok /\ response.error # ""
                 /\ sent = <<>>)
        /\ (request.hasKey /\ request.body = "object"
            /\ Blank(request.phone) /\ request.message.kind # "other")
             => (response.status = 400 /\ ~response.ok
                 /\ response.error = "Phone is required." /\ sent = <<>>)
        /\ (request.hasKey /\ request.body = "object"
            /\ Filled(request.phone) /\ Blank(request.message))
             => (response.status = 400 /\ ~response.ok
                 /\ response.error = "Message is required." /\ sent = <<>>)
        /\ response.error = "exception"
             => (response.status = 500 /\ ~response.ok /\ NothingForwarded)

\* C19: for a request with the credential configured and non-empty phone
\* and message, POST /api/sms makes exactly one upstream call and, once the
\* provider has answered, responds with { ok, status, data } whose HTTP
\* status and status field equal the upstream status and whose ok is true
\* exactly when the upstream status is a success.
C19_MirrorsUpstream ==
    (/\ routePc = "done"
     /\ request.hasKey /\ request.body = "object"
     /\ Filled(request.phone) /\ Filled(request.message))
        => /\ Len(sent) = 1
           /\ upstream # 0
                => /\ response.status = upstream
                   /\ response.upstreamStatus = upstream
                   /\ response.ok = UpstreamOk(upstream)
                   /\ response.data # "none"

\* C20: phone normalisation is idempotent: applying normalizeUgPhone, or the
\* pipeline splitCsv -> normalizeUgPhone -> uniqueCsv, to its own result
\* gives that result again.
C20_NormalizeIdempotent ==
    \A i \in 1..Len(phoneOut) : phoneOut[i] = phoneOut[1]

\* C20: the pipeline has been applied twice to a text that it changed.
C20_Witness ==
    /\ phoneApplied = "recipients"
    /\ Len(phoneOut) = 2
    /\ phoneOut[1] # phoneIn
    /\ phoneOut[1] # <<>>

\* The text is a phone in one of the accepted forms 07XXXXXXXX,
\* 2567XXXXXXXX, +2567XXXXXXXX, blanks aside.
AcceptedForm(tok) ==
    LET s == StripWs(tok) IN
    \/ PrefixThen8Digits(s, <<"0", "7">>)
    \/ PrefixThen8Digits(s, <<"2", "5", "6", "7">>)
    \/ PrefixThen8Digits(s, <<"+", "2", "5", "6", "7">>)

\* The +2567XXXXXXXX entry of the number an accepted form denotes: +256 and
\* its last nine digits.
CanonicalEntry(tok) ==
    LET s == StripWs(tok) IN <<"+", "2", "5", "6">> \o SubSeq(s, Len(s) - 8, Len(s))

\* The entries of a comma-joined text.
Entries(csv) == IF csv = <<>> THEN <<>> ELSE Split(csv, <<>>)

\* How often the entry e occurs in the comma-joined text.
Occurrences(e, csv) == Cardinality({i \in 1..Len(Entries(csv)) : Entries(csv)[i] = e})

\* C21: the output of the comma-separated normaliser is a comma-joined text
\* with no entry twice and no empty entry, and every input token in an
\* accepted form, however often and in whichever forms its number is given,
\* yields exactly one canonical +2567XXXXXXXX entry.
C21_DuplicateFree ==
    (phoneApplied \in {"recipients", "collectOwnerPhones"} /\ phoneOut # <<>>)
        => LET out == phoneOut[1]
               toks == splitCsv(phoneIn)
           IN /\ \A i, j \in 1..Len(Entries(out)) :
                     Entries(out)[i] = Entries(out)[j] => i = j
              /\ \A i \in 1..Len(Entries(out)) : Entries(out)[i] # <<>>
              /\ \A i \in 1..Len(toks) :
                     AcceptedForm(toks[i]) => Occurrences(CanonicalEntry(toks[i]), out) = 1
              /\ \A i \in 1..Len(Entries(out)) :
                     AcceptedForm(Entries(out)[i])
                         => Entries(out)[i] = CanonicalEntry(Entries(out)[i])

\* C21: the same number was given as 07XXXXXXXX and as 2567XXXXXXXX and the
\* output is its one canonical entry.
C21_Witness ==
    /\ phoneApplied = "recipients"
    /\ phoneOut # <<>>
    /\ phoneIn = LocalPhone \o <<",">> \o Intl256Phone
    /\ phoneOut[1] = <<"+">> \o Intl256Phone

\* The run of tab t has recorded a release of all the boxes that were
\* impounded, on a bounded-drugs page or in the release modal of the detail
\* page.
ReleasedAllBoxes(t) ==
    /\ outcome[t].write = "ok"
    /\ \/ /\ outcome[t].op = "handleSubmitRelease"
          /\ releaseCount(page[t], relInput[t]).n = MaxBoxes
       \/ /\ outcome[t].op = "handleReleaseSubmit"
          /\ relForm[t].form.boxesReleased = String(MaxBoxes)

\* C22: scenario A: when all the impounded boxes of a record have been
\* released, the remaining count is 0, the status field is the completed
\* marker and boxStatus is Released.
C22_ScenarioA ==
    \A t \in Tabs :
        ReleasedAllBoxes(t) =>
            /\ num(boxesImpounded) = 0
            /\ invStatus = "Completed"
            /\ boxStatus = Released

\* C23: a push that lost the race against the timeout is aborted: every
\* submission record is created by a handleSubmit run that is waiting for
\* its push and reports it as done, never by a push whose run has reported
\* the timeout.
C23_TimeoutAbortsPush ==
    [][submissions' # submissions
         => \E t \in Tabs : pc[t] = "form_push" /\ outcome'[t].push = "ok"]_vars

\* C24: at every moment the stored boxStatus is 'Released' if and only if
\* the record has a releaseRecord.
C24_ReleasedIffRecord ==
    (boxStatus = Released) <=> (releaseRecord # <<>>)

\* C25: the stored boxesImpounded never increases and is never negative,
\* whatever the tabs' handleSubmitRelease runs do and in whatever order.
C25_ImpoundedNeverGrows ==
    [][/\ num(boxesImpounded') <= num(boxesImpounded)
       /\ num(boxesImpounded') >= 0]_vars

\* C26: the count originally impounded equals the stored boxesImpounded plus
\* the sum of boxesReleased over the entries under releases/{id}, whenever no
\* handleSubmitRelease run is between its push and its update, also after a
\* run whose update has failed.
C26_ReleasesMatchInventory ==
    (\A t \in Tabs : pc[t] # "submit_update")
        => MaxBoxes = num(boxesImpounded) + SumOver(releases, DOMAIN releases)

\* C27: AuthGate renders its children only for a signed-in, allowed user:
\* never while the auth state has resolved to no user, never after a failed
\* role check.
C27_ChildrenOnlyWhenAllowed ==
    Rendered = "children" => (gate.user /\ gate.allowed = "true")

\* C28: a reminder SMS goes out only for a record whose stored boxStatus is
\* 'In Store' at that moment, also when a status change or a release in
\* another tab races with the background check.
C28_ReminderOnlyInStore ==
    [][remindersSent' > remindersSent => boxStatus = InStore]_vars

\* The ids in the list.
ListedIds == {itemIds[i] : i \in 1..Len(itemIds)}

\* C29: a later snapshot of the live subscription (a step after the first
\* snapshot that neither starts nor ends a loadMore) discards nothing: the
\* records in the list stay in it and the cursor stays where it is.
C29_SnapshotKeepsPages ==
    [][(~loading /\ loadingMore' = loadingMore)
         => /\ ListedIds \subseteq ListedIds'
            /\ lastSeenOrderVal' = lastSeenOrderVal]_vars

\* C30: against a fixed dataset, once reachedEnd is set the list holds every
\* record of the dataset.
C30_NothingSkipped ==
    (~loading /\ reachedEnd) => ListedIds = DOMAIN dataset

====
